---- MODULE Spec2Model ----
(***************************************************************************)
(* PGN replay: a model of the grammar driver (parser.h, PGNParser), the    *)
(* move interpreter (parser.h, MoveFactory) and the board engine           *)
(* (board.h, ChessBoard).                                                  *)
(*                                                                         *)
(* Characters are one-character strings, texts are sequences of them.      *)
(* A std::optional<int> without a value is NoValue.                        *)
(***************************************************************************)
EXTENDS Integers, Sequences, FiniteSets, TLC

VARIABLES
  board_,      \* ChessBoard::board_ : the 8x8 grid of cells
  last,        \* the last call of ChessBoard::apply: descriptor, result, resolved pair
  parser,      \* the PGNParser: state_, paranthesis_count_, white_turn
  tok,         \* the token last given to PGNParser::consume_token
  emitted,     \* what that call returned (or how it ended)
  nmoves,      \* how many NextMove and castling descriptors the driver has emitted
  stray,       \* whether the driver has emitted an Ignore
  ref,         \* a second PGNParser, given only the tokens outside parentheses
  balanced,    \* no RPAREN has arrived at depth 0 so far
  file_,       \* TokenScanner::file_ : the characters of the input not read yet
  scanner,     \* the TokenScanner and its iterator: c_, repeat_, eof of the stream
  taken,       \* the characters scan_token has taken from file_ so far
  outcome,     \* how the session stands: "running", "finished", "error", "aborted"
  steps        \* number of inputs (descriptors, tokens) handled so far

boardVars == <<board_, last>>
parserVars == <<parser, tok, emitted, nmoves, stray, ref, balanced>>
scanVars == <<file_, scanner, taken>>
vars == <<board_, last, parser, tok, emitted, nmoves, stray, ref, balanced,
          file_, scanner, taken, outcome, steps>>

(***************************************************************************)
(* Board engine: board.h                                                   *)
(***************************************************************************)
NBoard == 8
NoValue == -1

Idx == 0 .. (NBoard - 1)
Pieces == {"P", "N", "B", "R", "Q", "K"}

\* common.h is not part of the sources; r and f follow the tests of
\* MoveFactory (e4 -> x = 4, y = 4; h1 -> x = 7, y = 7; a1 -> x = 7, y = 0).
RankChars == <<"8", "7", "6", "5", "4", "3", "2", "1">>
FileChars == <<"a", "b", "c", "d", "e", "f", "g", "h">>
r(c) == (CHOOSE i \in 1 .. 8 : RankChars[i] = c) - 1
f(c) == (CHOOSE i \in 1 .. 8 : FileChars[i] = c) - 1

Cell(is_white, piece) == [is_white |-> is_white, piece |-> piece, double_move |-> FALSE]
Coordinates(x, y) == [x |-> x, y |-> y]

in_range(idx) == 0 <= idx /\ idx <= NBoard - 1

clear == [x \in Idx |-> [y \in Idx |-> Cell(FALSE, ".")]]

high_rank == <<"R", "N", "B", "Q", "K", "B", "N", "R">>
low_rank == <<"P", "P", "P", "P", "P", "P", "P", "P">>

\* Mutant of ChessBoard: the colours of the two sides are exchanged.
ChessBoard_colours_exchanged ==
  [x \in Idx |-> [y \in Idx |->
     IF x = r("8") THEN Cell(TRUE, high_rank[y + 1])
     ELSE IF x = r("7") THEN Cell(TRUE, low_rank[y + 1])
     ELSE IF x = r("1") THEN Cell(FALSE, high_rank[y + 1])
     ELSE IF x = r("2") THEN Cell(FALSE, low_rank[y + 1])
     ELSE Cell(FALSE, ".")]]

ChessBoard ==
  [x \in Idx |-> [y \in Idx |->
     IF x = r("8") THEN Cell(FALSE, high_rank[y + 1])
     ELSE IF x = r("7") THEN Cell(FALSE, low_rank[y + 1])
     ELSE IF x = r("1") THEN Cell(TRUE, high_rank[y + 1])
     ELSE IF x = r("2") THEN Cell(TRUE, low_rank[y + 1])
     ELSE Cell(FALSE, ".")]]

manualy_set_cell(b, c, cell) == [b EXCEPT ![c.x][c.y] = cell]

is_free_cell(b, c) == b[c.x][c.y].piece = "."

is_valid_dest(b, dst, capture, is_white_move) ==
  IF capture
  THEN b[dst.x][dst.y].is_white = (~is_white_move) /\ b[dst.x][dst.y].piece # "K"
  ELSE b[dst.x][dst.y].piece = "."

\* The eight directions of is_locked, d[i + 1] for the source's d[i].
d == << [dx |-> -1, dy |-> 0], [dx |-> -1, dy |-> 1], [dx |-> 0, dy |-> 1],
        [dx |-> 1, dy |-> 1], [dx |-> 1, dy |-> 0], [dx |-> 1, dy |-> -1],
        [dx |-> 0, dy |-> -1], [dx |-> -1, dy |-> -1] >>

step_ray(ray, i) == Coordinates(ray.x + d[i + 1].dx, ray.y + d[i + 1].dy)

\* do { ray += d[i]; } while (in range and empty)
RECURSIVE ray_cast(_, _, _)
ray_cast(b, ray, i) ==
  LET nxt == step_ray(ray, i)
  IN IF in_range(nxt.x) /\ in_range(nxt.y) /\ b[nxt.x][nxt.y].piece = "."
     THEN ray_cast(b, nxt, i)
     ELSE nxt

\* do { ray += d[i]; } while (ray != dst and in range and empty)
RECURSIVE ray_cast_to(_, _, _, _)
ray_cast_to(b, ray, i, dst) ==
  LET nxt == step_ray(ray, i)
  IN IF nxt # dst /\ in_range(nxt.x) /\ in_range(nxt.y) /\ b[nxt.x][nxt.y].piece = "."
     THEN ray_cast_to(b, nxt, i, dst)
     ELSE nxt

is_king_under_attack(b, direction, attacker, is_white_move) ==
  LET c == b[attacker.x][attacker.y]
  IN IF c.piece = "." \/ c.is_white = is_white_move
     THEN FALSE
     ELSE IF direction % 2 = 1
          THEN c.piece = "Q" \/ c.piece = "B"
          ELSE c.piece = "Q" \/ c.piece = "R"

\* Whether the cell a ray stopped at is on the board and holds the mover's king.
is_own_king(b, ray, is_white_move) ==
  in_range(ray.x) /\ in_range(ray.y)
    /\ b[ray.x][ray.y].piece = "K" /\ b[ray.x][ray.y].is_white = is_white_move

\* The directions in which the first piece met from src is the mover's king.
king_rays(b, src, is_white_move) ==
  { i \in 0 .. (NBoard - 1) : is_own_king(b, ray_cast(b, src, i), is_white_move) }

\* The second half of is_locked: the king was found in direction idx, and
\* ray is where the walk from src in the opposite direction stopped.
is_locked_behind(b, dst, capture, is_white_move, idx, ray) ==
  IF in_range(ray.x) /\ in_range(ray.y) /\ b[ray.x][ray.y].piece # "."
  THEN IF ray = dst
       THEN IF b[ray.x][ray.y].is_white = is_white_move \/ ~capture
            THEN "assert"
            ELSE LET behind == step_ray(ray, (idx + NBoard \div 2) % NBoard)
                 IN IF in_range(behind.x) /\ in_range(behind.y)
                    THEN IF is_king_under_attack(b, idx, behind, is_white_move)
                         THEN "locked" ELSE "free"
                    ELSE "free"
       ELSE IF is_king_under_attack(b, idx, ray, is_white_move)
            THEN "locked" ELSE "free"
  ELSE "free"

\* The walk of is_locked from src away from the king found in direction idx.
is_locked_from(b, src, dst, capture, is_white_move, idx) ==
  is_locked_behind(b, dst, capture, is_white_move, idx,
                   ray_cast_to(b, src, (idx + NBoard \div 2) % NBoard, dst))

\* Mutant of is_locked: no piece is ever found pinned.
is_locked_never(b, src, dst, capture, is_white_move) == "free"

\* "locked", "free", or "assert" when an INTERNAL_ASSERT of is_locked fails.
is_locked(b, src, dst, capture, is_white_move) ==
  LET found == king_rays(b, src, is_white_move)
  IN IF found = {}
     THEN "free"
     ELSE is_locked_from(b, src, dst, capture, is_white_move,
                         CHOOSE i \in found : \A j \in found : i <= j)

abs(n) == IF n < 0 THEN -n ELSE n

\* What a per-piece predicate returns: its value, the board it leaves (only
\* can_move_pawn writes to it) and whether an INTERNAL_ASSERT failed inside.
Verdict(result, b, failed) == [result |-> result, b |-> b, failed |-> failed]

\* Mutant of take_en_passant: the captured pawn stays on the board.
take_en_passant_keep(b, x) == [b EXCEPT ![x.x][x.y].double_move = FALSE]

\* Mutant of take_en_passant: the captured pawn's cell keeps its flag.
take_en_passant_keep_flag(b, x) == [b EXCEPT ![x.x][x.y].piece = "."]

\* captured_cell.piece = '.'; captured_cell.double_move = false;
take_en_passant(b, x) ==
  [b EXCEPT ![x.x][x.y].piece = ".", ![x.x][x.y].double_move = FALSE]

\* Mutant of can_move_pawn: a push of two squares does not set double_move.
can_move_pawn_no_flag(b, src, dst, capture, is_white_move) ==
  LET dy == abs(dst.y - src.y)
      first_move == IF is_white_move THEN r("2") = src.x ELSE r("7") = src.x
      dx == IF is_white_move THEN src.x - dst.x ELSE dst.x - src.x
      fwd == IF is_white_move THEN -1 ELSE 1
  IN IF capture
     THEN IF dx = 1 /\ dy = 1 /\ b[dst.x][dst.y].piece = "."
          THEN LET x == Coordinates(src.x, src.y + (dst.y - src.y))
                   captured_cell == b[x.x][x.y]
               IN IF ~in_range(x.y) \/ captured_cell.piece # "P"
                     \/ captured_cell.is_white # (~is_white_move)
                     \/ ~captured_cell.double_move
                  THEN Verdict(FALSE, b, TRUE)
                  ELSE Verdict(TRUE, take_en_passant(b, x), FALSE)
          ELSE Verdict((dx = 1 /\ dy = 1) /\ is_valid_dest(b, dst, capture, is_white_move),
                       b, FALSE)
     ELSE IF dx = 2
          THEN Verdict(first_move /\ dy = 0
                         /\ is_free_cell(b, Coordinates(src.x + fwd, src.y))
                         /\ is_free_cell(b, Coordinates(src.x + 2 * fwd, src.y)),
                       b, FALSE)
          ELSE IF dx = 1
               THEN Verdict(dy = 0 /\ is_valid_dest(b, dst, capture, is_white_move), b, FALSE)
               ELSE Verdict(FALSE, b, FALSE)

can_move_pawn(b, src, dst, capture, is_white_move) ==
  LET dy == abs(dst.y - src.y)
      first_move == IF is_white_move THEN r("2") = src.x ELSE r("7") = src.x
      dx == IF is_white_move THEN src.x - dst.x ELSE dst.x - src.x
      fwd == IF is_white_move THEN -1 ELSE 1
  IN IF capture
     THEN IF dx = 1 /\ dy = 1 /\ b[dst.x][dst.y].piece = "."
          THEN \* detect en passant
               LET x == Coordinates(src.x, src.y + (dst.y - src.y))
                   captured_cell == b[x.x][x.y]
               IN IF ~in_range(x.y) \/ captured_cell.piece # "P"
                     \/ captured_cell.is_white # (~is_white_move)
                     \/ ~captured_cell.double_move
                  THEN Verdict(FALSE, b, TRUE)
                  ELSE Verdict(TRUE, take_en_passant(b, x), FALSE)
          ELSE Verdict((dx = 1 /\ dy = 1) /\ is_valid_dest(b, dst, capture, is_white_move),
                       b, FALSE)
     ELSE IF dx = 2
          THEN IF first_move /\ dy = 0
               THEN LET ray1 == Coordinates(src.x + fwd, src.y)
                        ray2 == Coordinates(src.x + 2 * fwd, src.y)
                    IN IF ~is_free_cell(b, ray1)
                       THEN Verdict(FALSE, b, FALSE)
                       ELSE IF is_free_cell(b, ray2)
                            THEN Verdict(TRUE, [b EXCEPT ![dst.x][dst.y].double_move = TRUE], FALSE)
                            ELSE Verdict(FALSE, b, FALSE)
               ELSE Verdict(FALSE, b, FALSE)
          ELSE IF dx = 1
               THEN Verdict(dy = 0 /\ is_valid_dest(b, dst, capture, is_white_move), b, FALSE)
               ELSE Verdict(FALSE, b, FALSE)

can_move_rook(b, src, dst, capture, is_white_move) ==
  IF src.x = dst.x /\ src.y # dst.y
  THEN /\ IF src.y < dst.y
          THEN \A y \in (src.y + 1) .. dst.y :
                 Coordinates(src.x, y) # dst => is_free_cell(b, Coordinates(src.x, y))
          ELSE \A y \in dst.y .. (src.y - 1) :
                 Coordinates(src.x, y) # dst => is_free_cell(b, Coordinates(src.x, y))
       /\ is_valid_dest(b, dst, capture, is_white_move)
  ELSE IF src.y = dst.y /\ src.x # dst.x
       THEN /\ IF src.x < dst.x
               THEN \A x \in (src.x + 1) .. dst.x :
                      Coordinates(x, src.y) # dst => is_free_cell(b, Coordinates(x, src.y))
               ELSE \A x \in dst.x .. (src.x - 1) :
                      Coordinates(x, src.y) # dst => is_free_cell(b, Coordinates(x, src.y))
            /\ is_valid_dest(b, dst, capture, is_white_move)
       ELSE FALSE

\* Mutant of can_move_bishop: the cells on the way are not looked at.
can_move_bishop_jumping(b, src, dst, capture, is_white_move) ==
  LET dx == abs(dst.x - src.x)
      dy == abs(dst.y - src.y)
  IN dx >= 1 /\ dy >= 1 /\ dx = dy /\ is_valid_dest(b, dst, capture, is_white_move)

can_move_bishop(b, src, dst, capture, is_white_move) ==
  LET dx == abs(dst.x - src.x)
      dy == abs(dst.y - src.y)
      sx == IF dst.x > src.x THEN 1 ELSE -1
      sy == IF dst.y > src.y THEN 1 ELSE -1
  IN IF dx >= 1 /\ dy >= 1 /\ dx = dy
     THEN /\ \A k \in 1 .. dx :
               LET ray == Coordinates(src.x + k * sx, src.y + k * sy)
               IN ray # dst => is_free_cell(b, ray)
          /\ is_valid_dest(b, dst, capture, is_white_move)
     ELSE FALSE

can_move_queen(b, src, dst, capture, is_white_move) ==
  can_move_rook(b, src, dst, capture, is_white_move)
    \/ can_move_bishop(b, src, dst, capture, is_white_move)

can_move_knight(b, src, dst, capture, is_white_move) ==
  LET dx == abs(dst.x - src.x)
      dy == abs(dst.y - src.y)
  IN ((dx = 1 /\ dy = 2) \/ (dx = 2 /\ dy = 1))
       /\ is_valid_dest(b, dst, capture, is_white_move)

can_move_king(b, src, dst, capture, is_white_move) ==
  LET dx == abs(src.x - dst.x)
      dy == abs(src.y - dst.y)
  IN (dx # 0 \/ dy # 0) /\ dx <= 1 /\ dy <= 1
       /\ is_valid_dest(b, dst, capture, is_white_move)

\* The switch of apply over val.piece.
can_move(b, piece, src, dst, capture, is_white_move) ==
  CASE piece = "P" -> can_move_pawn(b, src, dst, capture, is_white_move)
    [] piece = "R" -> Verdict(can_move_rook(b, src, dst, capture, is_white_move), b, FALSE)
    [] piece = "Q" -> Verdict(can_move_queen(b, src, dst, capture, is_white_move), b, FALSE)
    [] piece = "N" -> Verdict(can_move_knight(b, src, dst, capture, is_white_move), b, FALSE)
    [] piece = "B" -> Verdict(can_move_bishop(b, src, dst, capture, is_white_move), b, FALSE)
    [] piece = "K" -> Verdict(can_move_king(b, src, dst, capture, is_white_move), b, FALSE)
    [] OTHER -> Verdict(FALSE, b, TRUE)

(***************************************************************************)
(* ChessBoard::apply                                                       *)
(***************************************************************************)
NoPiece == "none"      \* std::optional<char> without a value
NulPiece == "NUL"      \* NextMove::piece before the interpreter sets it ('\0')

\* A default-constructed NextMove (moves.h) with is_white_move set.
NextMove(is_white_move) ==
  [kind |-> "NextMove", piece |-> NulPiece, is_white_move |-> is_white_move,
   capture |-> FALSE, check |-> FALSE, checkmate |-> FALSE,
   src |-> Coordinates(NoValue, NoValue), dst |-> Coordinates(NoValue, NoValue),
   promote_piece |-> NoPiece]
KingCastling(is_white_move) == [kind |-> "KingCastling", is_white_move |-> is_white_move]
QueenCastling(is_white_move) == [kind |-> "QueenCastling", is_white_move |-> is_white_move]
Finish(marker) == [kind |-> "Finish", marker |-> marker]
Ignore == [kind |-> "Ignore"]

cells_of(b, piece, is_white_move, xs, ys) ==
  { c \in { Coordinates(x, y) : x \in xs, y \in ys } :
      b[c.x][c.y].piece = piece /\ b[c.x][c.y].is_white = is_white_move }

\* Mutant of src_candidates: a rank given alone selects the pieces off that rank.
src_candidates_off_rank(b, val) ==
  IF val.src.y = NoValue /\ val.src.x = NoValue
  THEN cells_of(b, val.piece, val.is_white_move, Idx, Idx)
  ELSE IF val.src.y = NoValue
       THEN cells_of(b, val.piece, val.is_white_move, Idx \ {val.src.x}, Idx)
       ELSE IF val.src.x = NoValue
            THEN cells_of(b, val.piece, val.is_white_move, Idx, {val.src.y})
            ELSE {Coordinates(val.src.x, val.src.y)}

src_candidates(b, val) ==
  IF val.src.y = NoValue /\ val.src.x = NoValue
  THEN cells_of(b, val.piece, val.is_white_move, Idx, Idx)
  ELSE IF val.src.y = NoValue
       THEN cells_of(b, val.piece, val.is_white_move, {val.src.x}, Idx)
       ELSE IF val.src.x = NoValue
            THEN cells_of(b, val.piece, val.is_white_move, Idx, {val.src.y})
            ELSE {Coordinates(val.src.x, val.src.y)}

dst_candidates(b, val) ==
  IF val.dst.y = NoValue
  THEN { c \in { Coordinates(val.dst.x, y) : y \in Idx } :
           b[c.x][c.y].piece = "." \/ val.capture }
  ELSE IF val.dst.x = NoValue
       THEN { c \in { Coordinates(x, val.dst.y) : x \in Idx } :
                b[c.x][c.y].piece = "." \/ val.capture }
       ELSE {Coordinates(val.dst.x, val.dst.y)}

\* The candidate sets are unordered_sets: the order in which the loops of
\* apply visit them is not fixed by the code.  The model visits them in
\* ascending or in descending order of cell_key.
Orders == {"ascending", "descending"}
cell_key(c) == c.x * NBoard + c.y
first_of(S, order) ==
  IF order = "ascending"
  THEN CHOOSE c \in S : \A o \in S : cell_key(c) <= cell_key(o)
  ELSE CHOOSE c \in S : \A o \in S : cell_key(c) >= cell_key(o)

\* The state of the double loop of apply.
Eval(b, matches, found_match, final_src, final_dst, failed) ==
  [b |-> b, matches |-> matches, found_match |-> found_match,
   final_src |-> final_src, final_dst |-> final_dst, failed |-> failed]

\* The inner loop's body after the per-piece predicate returned v:
\* matches += can_move; the first match is recorded as the final pair.
count_match(ev, val, src, dst, v) ==
  LET matches == ev.matches + (IF v.result THEN 1 ELSE 0)
  IN IF v.failed
     THEN [ev EXCEPT !.b = v.b, !.failed = TRUE]
     ELSE IF ~ev.found_match /\ matches = 1
          THEN \* clear the double move flag of a pawn that moved or was captured
               IF val.piece = "P"
               THEN Eval([v.b EXCEPT ![src.x][src.y].double_move = FALSE],
                         matches, TRUE, src, dst, FALSE)
               ELSE IF val.capture /\ v.b[dst.x][dst.y].double_move
                    THEN IF v.b[dst.x][dst.y].piece # "P"
                         THEN Eval(v.b, matches, TRUE, src, dst, TRUE)
                         ELSE Eval([v.b EXCEPT ![dst.x][dst.y].double_move = FALSE],
                                   matches, TRUE, src, dst, FALSE)
                    ELSE Eval(v.b, matches, TRUE, src, dst, FALSE)
          ELSE [ev EXCEPT !.b = v.b, !.matches = matches]

\* The inner loop's body after is_locked returned locked.
eval_unlocked(ev, val, src, dst, locked) ==
  IF locked = "assert"
  THEN [ev EXCEPT !.failed = TRUE]
  ELSE IF locked = "locked"
       THEN ev
       ELSE count_match(ev, val, src, dst,
                        can_move(ev.b, val.piece, src, dst, val.capture, val.is_white_move))

\* The body of the inner loop for one (src, dst) pair.
eval_pair(ev, val, src, dst) ==
  IF ev.failed
  THEN ev
  ELSE eval_unlocked(ev, val, src, dst,
                     is_locked(ev.b, src, dst, val.capture, val.is_white_move))

RECURSIVE eval_dsts(_, _, _, _, _)
eval_dsts(ev, val, src, dsts, order) ==
  IF dsts = {}
  THEN ev
  ELSE LET dst == first_of(dsts, order)
       IN eval_dsts(eval_pair(ev, val, src, dst), val, src, dsts \ {dst}, order)

RECURSIVE eval_srcs(_, _, _, _, _)
eval_srcs(ev, val, srcs, dsts, order) ==
  IF srcs = {}
  THEN ev
  ELSE LET src == first_of(srcs, order)
       IN eval_srcs(eval_dsts(ev, val, src, dsts, order), val, srcs \ {src}, dsts, order)

\* What a call of apply leaves: the board, whether it returned (ok) or ended
\* in a failed INTERNAL_ASSERT, and for a NextMove the loop's final state.
Applied(b, ok, ev) == [b |-> b, ok |-> ok, ev |-> ev]
NoEval(b) == Eval(b, 0, FALSE, Coordinates(NoValue, NoValue), Coordinates(NoValue, NoValue), FALSE)

\* Mutant of move_piece: the source cell is not reset.
move_piece_keep_src(b, new_piece, is_white_move, fs, fd) ==
  [b EXCEPT ![fd.x][fd.y].piece = new_piece,
            ![fd.x][fd.y].is_white = is_white_move]

\* The writes that end apply: the piece on the destination, the source
\* reset, the colour of the destination.
move_piece(b, new_piece, is_white_move, fs, fd) ==
  [b EXCEPT ![fd.x][fd.y].piece = new_piece,
            ![fs.x][fs.y].piece = ".",
            ![fd.x][fd.y].is_white = is_white_move]

\* The end of apply once the double loop left ev:
\* INTERNAL_ASSERT(matches == 1), then the writes.
apply_match(val, ev) ==
  IF ev.failed \/ ev.matches # 1
  THEN Applied(ev.b, FALSE, ev)
  ELSE
    LET fs == ev.final_src
        fd == ev.final_dst
        new_piece == IF val.promote_piece # NoPiece
                     THEN val.promote_piece ELSE val.piece
    IN Applied(move_piece(ev.b, new_piece, val.is_white_move, fs, fd),
               TRUE, ev)

apply_NextMove(b, val, order) ==
  IF val.piece = NulPiece \/ val.dst.y = NoValue
  THEN Applied(b, FALSE, NoEval(b))
  ELSE
    LET srcs == src_candidates(b, val)
    IN IF srcs = {}
       THEN Applied(b, FALSE, NoEval(b))
       ELSE
         LET dsts == dst_candidates(b, val)
         IN IF dsts = {}
            THEN Applied(b, FALSE, NoEval(b))
            ELSE apply_match(val, eval_srcs(NoEval(b), val, srcs, dsts, order))

(***************************************************************************)
(* Move interpreter: MoveFactory::operator() (parser.h)                    *)
(*                                                                         *)
(* The text is read from its last character to its first: position i is    *)
(* the reverse iterator c, i = Len(val) is rbegin(val), i = 0 is rend(val).*)
(***************************************************************************)
TerminationMarker == {"MANUAL", "WHITE_WON", "BLAKC_WON", "EVEN"}
Throw == [kind |-> "Throw"]            \* std::runtime_error leaves the call
Undefined == [kind |-> "Undefined"]    \* the iterator left the text: no defined result

\* The state of the scan: the descriptor so far, the iterator, how it stands.
Scan(m, i, st) == [m |-> m, i |-> i, st |-> st]

has_more_char(s) == s.i # 0
\* *c; at rend(val) the read is outside the text and yields junk.
deref(val, s, junk) == IF s.i >= 1 THEN val[s.i] ELSE junk
advance(s) == [s EXCEPT !.i = s.i - 1]
needs_one_char(s) == IF s.i = 0 THEN [s EXCEPT !.st = "throw"] ELSE s

is_rank_char(c) == c \in {"1", "2", "3", "4", "5", "6", "7", "8"}
is_file_char(c) == c \in {"a", "b", "c", "d", "e", "f", "g", "h"}

\* One round of the loop over '#', '+', ':'; st = "break" when it leaves the loop.
scan_flag(val, s0) ==
  LET s == needs_one_char(s0)
  IN IF s.st # "go"
     THEN s
     ELSE IF val[s.i] = "#"
          THEN advance([s EXCEPT !.m.checkmate = TRUE])
          ELSE IF val[s.i] = "+"
               THEN advance([s EXCEPT !.m.check = TRUE])
               ELSE IF val[s.i] = ":"
                    THEN advance([s EXCEPT !.m.capture = TRUE])
                    ELSE [s EXCEPT !.st = "break"]

scan_flags(val, s0) ==
  LET s1 == scan_flag(val, s0)
      s2 == IF s1.st = "go" THEN scan_flag(val, s1) ELSE s1
  IN IF s2.st = "break" THEN [s2 EXCEPT !.st = "go"] ELSE s2

scan_bracket(val, s, junk) ==
  IF s.st # "go" THEN s
  ELSE IF deref(val, s, junk) = ")"
       THEN needs_one_char(advance(s))
       ELSE s

\* Mutant of scan_promotion: the character before the piece is not skipped.
scan_promotion_no_separator(val, s, junk) ==
  IF s.st # "go" THEN s
  ELSE IF deref(val, s, junk) \in Pieces
       THEN needs_one_char(advance([s EXCEPT !.m.promote_piece = deref(val, s, junk)]))
       ELSE s

scan_promotion(val, s, junk) ==
  IF s.st # "go" THEN s
  ELSE IF deref(val, s, junk) \in Pieces
       THEN LET s1 == needs_one_char(advance([s EXCEPT !.m.promote_piece = deref(val, s, junk)]))
            IN IF s1.st # "go" THEN s1
               ELSE IF val[s1.i] \in {"=", "/", "("} THEN advance(s1) ELSE s1
       ELSE s

scan_dst(val, s) ==
  IF s.st # "go" THEN s
  ELSE LET s1 == IF has_more_char(s) /\ is_rank_char(val[s.i])
                 THEN advance([s EXCEPT !.m.dst.x = r(val[s.i])]) ELSE s
           s2 == IF has_more_char(s1) /\ is_file_char(val[s1.i])
                 THEN advance([s1 EXCEPT !.m.dst.y = f(val[s1.i])]) ELSE s1
       IN IF ~has_more_char(s2)
          THEN [s2 EXCEPT !.m.piece = "P", !.st = "done"]
          ELSE s2

scan_capture(val, s) ==
  IF s.st # "go" THEN s
  ELSE IF val[s.i] = "x" \/ val[s.i] = ":"
       THEN advance([s EXCEPT !.m.capture = TRUE])
       ELSE s

scan_src(val, s, junk) ==
  IF s.st # "go" THEN s
  ELSE LET c == deref(val, s, junk)
       IN IF is_rank_char(c)
          THEN IF s.i = 0
               THEN [s EXCEPT !.st = "undefined"]      \* ++c beyond rend(val)
               ELSE LET s1 == advance([s EXCEPT !.m.src.x = r(c)])
                    IN IF has_more_char(s1) /\ is_file_char(val[s1.i])
                       THEN advance([s1 EXCEPT !.m.src.y = f(val[s1.i])]) ELSE s1
          ELSE IF has_more_char(s) /\ is_file_char(val[s.i])
               THEN advance([s EXCEPT !.m.src.y = f(val[s.i])]) ELSE s

scan_piece(val, s) ==
  IF s.st # "go" THEN s
  ELSE LET s1 == IF has_more_char(s)
                 THEN IF val[s.i] \in Pieces
                      THEN advance([s EXCEPT !.m.piece = val[s.i]])
                      ELSE [s EXCEPT !.st = "throw"]
                 ELSE [s EXCEPT !.m.piece = "P"]
       IN IF s1.st # "go" THEN s1
          ELSE IF has_more_char(s1) THEN [s1 EXCEPT !.st = "throw"]
               ELSE [s1 EXCEPT !.st = "done"]

regular_move(val, white_turn, junk) ==
  LET s0 == Scan(NextMove(white_turn), Len(val), "go")
      s1 == scan_flags(val, s0)
      s2 == scan_bracket(val, s1, junk)
      s3 == scan_promotion(val, s2, junk)
      s4 == scan_dst(val, s3)
      s5 == scan_capture(val, s4)
      s6 == scan_src(val, s5, junk)
      s7 == scan_piece(val, s6)
  IN CASE s7.st = "done" -> s7.m
       [] s7.st = "throw" -> Throw
       [] OTHER -> Undefined

\* Mutant of MoveFactory: the text p is no annotation.
MoveFactory_e_only(val, white_turn, junk) ==
  IF val = <<"e">> THEN Ignore
  ELSE IF val = <<"O", "-", "O">> THEN KingCastling(white_turn)
  ELSE IF val = <<"O", "-", "O", "-", "O">> THEN QueenCastling(white_turn)
  ELSE IF val = <<"1", "-", "0">> THEN Finish("WHITE_WON")
  ELSE IF val = <<"0", "-", "1">> THEN Finish("BLAKC_WON")
  ELSE IF val = <<"1", "/", "2", "-", "1", "/", "2">> THEN Finish("EVEN")
  ELSE regular_move(val, white_turn, junk)

MoveFactory(val, white_turn, junk) ==
  IF val = <<"e">> \/ val = <<"p">> THEN Ignore
  ELSE IF val = <<"O", "-", "O">> THEN KingCastling(white_turn)
  ELSE IF val = <<"O", "-", "O", "-", "O">> THEN QueenCastling(white_turn)
  ELSE IF val = <<"1", "-", "0">> THEN Finish("WHITE_WON")
  ELSE IF val = <<"0", "-", "1">> THEN Finish("BLAKC_WON")
  ELSE IF val = <<"1", "/", "2", "-", "1", "/", "2">> THEN Finish("EVEN")
  ELSE regular_move(val, white_turn, junk)

(***************************************************************************)
(* ChessBoard::apply, the castlings and the dispatch over the descriptor   *)
(***************************************************************************)
\* Mutant of move_cell: the cell the piece left is not cleared.
move_cell_keep_from(b, row, from, to) == [b EXCEPT ![row][to] = b[row][from]]

\* board_[row][to] = board_[row][from]; board_[row][from].piece = '.'
move_cell(b, row, from, to) ==
  [b EXCEPT ![row][to] = b[row][from], ![row][from].piece = "."]

apply_QueenCastling(b, t) ==
  LET row == IF t.is_white_move THEN r("1") ELSE r("8")
  IN IF ~is_free_cell(b, Coordinates(row, f("c"))) \/ ~is_free_cell(b, Coordinates(row, f("d")))
     THEN Applied(b, FALSE, NoEval(b))
     ELSE Applied(move_cell(move_cell(b, row, f("e"), f("c")), row, f("a"), f("d")),
                  TRUE, NoEval(b))

apply_KingCastling(b, t) ==
  LET row == IF t.is_white_move THEN r("1") ELSE r("8")
  IN IF ~is_free_cell(b, Coordinates(row, f("g"))) \/ ~is_free_cell(b, Coordinates(row, f("f")))
     THEN Applied(b, FALSE, NoEval(b))
     ELSE Applied(move_cell(move_cell(b, row, f("e"), f("g")), row, f("h"), f("f")),
                  TRUE, NoEval(b))

apply(b, move, order) ==
  CASE move.kind = "NextMove" -> apply_NextMove(b, move, order)
    [] move.kind = "QueenCastling" -> apply_QueenCastling(b, move)
    [] move.kind = "KingCastling" -> apply_KingCastling(b, move)
    [] OTHER -> Applied(b, TRUE, NoEval(b))       \* Ignore, Finish: nothing is done

(***************************************************************************)
(* The board engine driven as the tests drive it: a board set up with      *)
(* manualy_set_cell, then apply(MoveFactory()(text, white_move)).          *)
(***************************************************************************)
\* What a read outside the text of a symbol may yield (MoveFactory).
JunkChars == {"NUL", "8"}


MaxPlies == 3

\* Boards of tests.cpp: the constructed board, and positions set on a cleared one.
set_cells(cells) ==
  [x \in Idx |-> [y \in Idx |->
     IF \E c \in cells : c[1] = x /\ c[2] = y
     THEN LET c == CHOOSE c \in cells : c[1] = x /\ c[2] = y IN Cell(c[3], c[4])
     ELSE Cell(FALSE, ".")]]

\* test_pawn_en_passant_board_moves, with a second white pawn on the a file
\* and the kings and rooks of test_castling.
EnPassantBoard ==
  set_cells({ <<1, 1, FALSE, "P">>, <<3, 2, TRUE, "P">>, <<3, 0, TRUE, "P">>,
              <<6, 0, TRUE, "P">>, <<0, 4, FALSE, "K">>, <<0, 0, FALSE, "R">>,
              <<7, 4, TRUE, "K">>, <<7, 7, TRUE, "R">>, <<7, 0, TRUE, "R">> })

\* test_locked_moves: two knights, one of them shields the king from a rook.
LockedBoard ==
  set_cells({ <<7, 2, TRUE, "N">>, <<7, 4, TRUE, "N">>, <<7, 3, TRUE, "K">>,
              <<7, 0, FALSE, "R">>, <<2, 2, FALSE, "B">>, <<1, 1, FALSE, "K">>,
              <<7, 7, TRUE, "Q">>, <<1, 3, TRUE, "P">> })

\* test_knight_board_moves: two knights that both reach b8.
KnightBoard ==
  set_cells({ <<2, 0, TRUE, "N">>, <<2, 2, TRUE, "N">>, <<1, 1, TRUE, "P">> })

\* A pinned piece with a free cell between it and its king: the white rook
\* of e3 shields the king of e1 from the black rook of e8.  The rook of a1
\* and the knight of b1 stand as on the constructed board.
PinBoard ==
  set_cells({ <<7, 4, TRUE, "K">>, <<5, 4, TRUE, "R">>, <<0, 4, FALSE, "R">>,
              <<7, 0, TRUE, "R">>, <<7, 1, TRUE, "N">> })

\* Two knights on one file that both reach b6 (test_knight_board_moves has
\* two knights on one rank).
HintBoard ==
  set_cells({ <<1, 3, TRUE, "N">>, <<3, 3, TRUE, "N">> })

StartBoards == {ChessBoard, EnPassantBoard, LockedBoard, KnightBoard, PinBoard, HintBoard}

MoveTexts ==
  { <<"e", "4">>,
    <<"e", "5">>,
    <<"d", "5">>,
    <<"e", "x", "d", "5">>,
    <<"N", "f", "3">>,
    <<"b", "5">>,
    <<"c", "x", "b", "6">>,
    <<"a", "x", "b">>,
    <<"b", "8", "=", "Q">>,
    <<"N", "d", "3">>,
    <<"N", "x", "d", "3">>,
    <<"N", "b", "8">>,
    <<"N", "a", "b", "8">>,
    <<"N", "a", "6", "b", "8">>,
    <<"N", "7", "b", "6">>,
    <<"N", "d", "b", "6">>,
    <<"B", "x", "h", "1">>,
    <<"O", "-", "O">>,
    <<"O", "-", "O", "-", "O">>,
    <<"e">>,
    <<"R", "x", "a", "5">>,
    <<"R", "e", "2">>,
    <<"K", "e", "2">> }

MoveInputs == { MoveFactory(t, w, junk) : t \in MoveTexts, w \in BOOLEAN, junk \in JunkChars }

(***************************************************************************)
(* Grammar driver: PGNParser (parser.h)                                    *)
(***************************************************************************)
\* A token is [type, value_]; the type is the token's Event.
Token(type, value_) == [type |-> type, value_ |-> value_]
NoMove == [kind |-> "nullopt"]         \* std::optional<Moves> without a value
Abort == [kind |-> "Abort"]            \* a failed INTERNAL_ASSERT

\* Mutant of transitions: a period in ParsingMove leads to ParsingPeriod.
transitions_period_after_move(state) ==
  CASE state = "Init" ->
         { <<"LeftBraceToken", "ParsingLeftBracket">>,
           <<"IntegerToken", "ParsingNumberIndication">>,
           <<"SymbolToken", "ParsingMove">>,
           <<"AsterkixToken", "Finished">> }
    [] state = "ParsingLeftBracket" ->
         { <<"SymbolToken", "ParsingHeaderName">> }
    [] state = "ParsingHeaderName" ->
         { <<"StringToken", "ParsingHeaderValue">>, <<"AsterkixToken", "Finished">> }
    [] state = "ParsingHeaderValue" ->
         { <<"RightBraceToken", "ParsingRightBracket">>, <<"AsterkixToken", "Finished">> }
    [] state = "ParsingRightBracket" ->
         { <<"LeftBraceToken", "ParsingLeftBracket">>,
           <<"IntegerToken", "ParsingNumberIndication">>,
           <<"SymbolToken", "ParsingMove">>,
           <<"AsterkixToken", "Finished">> }
    [] state = "ParsingNumberIndication" ->
         { <<"PeriodToken", "ParsingPeriod">>, <<"SymbolToken", "ParsingMove">>,
           <<"AsterkixToken", "Finished">> }
    [] state = "ParsingPeriod" ->
         { <<"PeriodToken", "ParsingPeriod">>, <<"SymbolToken", "ParsingMove">>,
           <<"AsterkixToken", "Finished">> }
    [] state = "ParsingMove" ->
         { <<"SymbolToken", "ParsingMove">>,
           <<"IntegerToken", "ParsingNumberIndication">>,
           <<"PeriodToken", "ParsingPeriod">>,
           <<"AsterkixToken", "Finished">> }
    [] state \in {"ParsingLeftParenthesis", "ParsingRightParenthesis", "ParsingComment"} ->
         { <<"AsterkixToken", "Finished">> }
    [] OTHER -> {}

\* PGNParser::PGNParser: automaton_[state].transitions as (event, target) pairs.
\* A state the constructor never touches has no entry.
transitions(state) ==
  CASE state = "Init" ->
         { <<"LeftBraceToken", "ParsingLeftBracket">>,
           <<"IntegerToken", "ParsingNumberIndication">>,
           <<"SymbolToken", "ParsingMove">>,
           <<"AsterkixToken", "Finished">> }
    [] state = "ParsingLeftBracket" ->
         { <<"SymbolToken", "ParsingHeaderName">> }
    [] state = "ParsingHeaderName" ->
         { <<"StringToken", "ParsingHeaderValue">>, <<"AsterkixToken", "Finished">> }
    [] state = "ParsingHeaderValue" ->
         { <<"RightBraceToken", "ParsingRightBracket">>, <<"AsterkixToken", "Finished">> }
    [] state = "ParsingRightBracket" ->
         { <<"LeftBraceToken", "ParsingLeftBracket">>,
           <<"IntegerToken", "ParsingNumberIndication">>,
           <<"SymbolToken", "ParsingMove">>,
           <<"AsterkixToken", "Finished">> }
    [] state = "ParsingNumberIndication" ->
         { <<"PeriodToken", "ParsingPeriod">>, <<"SymbolToken", "ParsingMove">>,
           <<"AsterkixToken", "Finished">> }
    [] state = "ParsingPeriod" ->
         { <<"PeriodToken", "ParsingPeriod">>, <<"SymbolToken", "ParsingMove">>,
           <<"AsterkixToken", "Finished">> }
    [] state = "ParsingMove" ->
         { <<"SymbolToken", "ParsingMove">>,
           <<"IntegerToken", "ParsingNumberIndication">>,
           <<"AsterkixToken", "Finished">> }
    [] state \in {"ParsingLeftParenthesis", "ParsingRightParenthesis", "ParsingComment"} ->
         { <<"AsterkixToken", "Finished">> }
    [] OTHER -> {}

\* The tokens consume_token returns on before it looks at the automaton.
is_dummy_token(event) ==
  event \in {"BraceComment", "LineComment", "EscapeToken", "NumericGlyphToken"}

\* A PGNParser after construction.
PGNParser == [state_ |-> "Init", paranthesis_count_ |-> 0, white_turn |-> FALSE]

Consumed(p, move) == [p |-> p, move |-> move]

\* Mutants of emit_move: the flag is never toggled; the flag is toggled only
\* when the text is a half-move.
emit_move_no_toggle(p, val, junk) ==
  Consumed(p, MoveFactory(val, p.white_turn, junk))
emit_move_toggle_on_NextMove(p, val, junk) ==
  LET m == MoveFactory(val, ~p.white_turn, junk)
  IN IF m.kind = "NextMove"
     THEN Consumed([p EXCEPT !.white_turn = ~p.white_turn], m)
     ELSE Consumed(p, MoveFactory(val, p.white_turn, junk))

\* move_status.emit_move: the flag is toggled, then the text is interpreted.
emit_move(p, val, junk) ==
  LET q == [p EXCEPT !.white_turn = ~p.white_turn]
  IN Consumed(q, MoveFactory(val, q.white_turn, junk))

\* Mutant of emit_at_depth: the depth is not looked at.
emit_at_any_depth(p, val, junk) == emit_move(p, val, junk)

\* paranthesis_count_ > 0 ? std::optional<Moves>{} : *emit_move(t.value_)
emit_at_depth(p, val, junk) ==
  IF p.paranthesis_count_ > 0 THEN Consumed(p, NoMove) ELSE emit_move(p, val, junk)

\* paranthesis_count_ > 0 ? std::optional<Moves>{} : Finish()
finish_at_depth(p) ==
  IF p.paranthesis_count_ > 0 THEN Consumed(p, NoMove) ELSE Consumed(p, Finish("MANUAL"))

consume_token(p, token, junk) ==
  LET event == token.type
  IN IF event = "monostate"
     THEN Consumed(p, Abort)
     ELSE IF is_dummy_token(event)
     THEN Consumed(p, NoMove)
     ELSE IF event = "LeftParenthesisToken"
     THEN Consumed([p EXCEPT !.paranthesis_count_ = p.paranthesis_count_ + 1], NoMove)
     ELSE IF event = "RightParenthesisToken"
     THEN Consumed([p EXCEPT !.paranthesis_count_ = p.paranthesis_count_ - 1], NoMove)
     ELSE IF ~(p.paranthesis_count_ >= 0) \/ transitions(p.state_) = {}
     THEN Consumed(p, Abort)
     ELSE
       LET possible == { t \in transitions(p.state_) : t[1] = event }
       IN IF possible = {}
          THEN IF p.state_ = "ParsingMove" /\ event = "PeriodToken"
               THEN Consumed(p, NoMove)
               ELSE Consumed(p, Throw)
          ELSE
            LET q == [p EXCEPT !.state_ = (CHOOSE t \in possible : TRUE)[2]]
            IN IF q.state_ = "Finished"
               THEN finish_at_depth(q)
               ELSE IF q.state_ = "ParsingMove"
                       /\ event \in {"StringToken", "SymbolToken", "IntegerToken"}
                    THEN emit_at_depth(q, token.value_, junk)
                    ELSE Consumed(q, NoMove)


(***************************************************************************)
(* The grammar driver alone: tokens arrive one at a time, as the loop of   *)
(* main (chess_replay.cpp) hands them to consume_token; a Finish ends the  *)
(* loop, an exception or a failed INTERNAL_ASSERT ends the session.        *)
(***************************************************************************)
MaxTokens == 6


\* The scanner of a session that reads no file.
IdleScanner ==
  /\ file_ = <<>>
  /\ scanner = [c_ |-> "NUL", repeat_ |-> FALSE, eof |-> FALSE]
  /\ taken = <<>>

\* The record of the last call of apply, before any call was made.
NoCall == [move |-> Ignore, ok |-> TRUE, matches |-> 0,
           src |-> Coordinates(NoValue, NoValue), dst |-> Coordinates(NoValue, NoValue),
           before |-> clear, turn |-> "none", well_formed |-> TRUE]


SymbolTexts ==
  { <<"e", "4">>, <<"O", "-", "O">>, <<"O", "-", "O", "-", "O">>, <<"e">>,
    <<"1", "-", "0">>, <<"E", "v">> }

\* The tokens TokenScanner produces (it never yields a monostate or a
\* NumericAnnotationToken).
DummyTokens ==
  { Token(t, <<>>) : t \in {"BraceComment", "LineComment", "EscapeToken", "NumericGlyphToken"} }
ParenTokens ==
  { Token(t, <<>>) : t \in {"LeftParenthesisToken", "RightParenthesisToken"} }
GrammarTokens ==
  { Token(t, <<>>) : t \in {"LeftBraceToken", "RightBraceToken", "PeriodToken", "AsterkixToken"} }
    \cup { Token("StringToken", <<"x">>), Token("IntegerToken", <<"1">>) }
    \cup { Token("SymbolToken", v) : v \in SymbolTexts }

\* Mutant of session_outcome: an exception of the driver is swallowed.
session_outcome_recover(move) ==
  CASE move.kind = "Finish" -> "finished"
    [] move.kind \in {"Abort", "Undefined"} -> "aborted"
    [] OTHER -> "running"

\* Mutant of session_outcome: the loop goes on after a Finish.
session_outcome_no_break(move) ==
  CASE move.kind = "Throw" -> "error"
    [] move.kind \in {"Abort", "Undefined"} -> "aborted"
    [] OTHER -> "running"

session_outcome(move) ==
  CASE move.kind = "Finish" -> "finished"
    [] move.kind = "Throw" -> "error"
    [] move.kind \in {"Abort", "Undefined"} -> "aborted"
    [] OTHER -> "running"

IdleParser ==
  /\ parser = PGNParser
  /\ tok = Token("monostate", <<>>)
  /\ emitted = NoMove
  /\ nmoves = 0
  /\ stray = FALSE
  /\ ref = [p |-> PGNParser, move |-> NoMove, outcome |-> "running"]
  /\ balanced = TRUE

InitParser ==
  /\ IdleParser
  /\ IdleScanner
  /\ board_ = ChessBoard
  /\ last = NoCall
  /\ outcome = "running"
  /\ steps = 0

\* The second parser sees a token only when the first is outside every
\* parenthesis and the token is no parenthesis.
ref_consume(t, junk) ==
  IF parser.paranthesis_count_ = 0 /\ t \notin ParenTokens /\ ref.outcome = "running"
  THEN LET c == consume_token(ref.p, t, junk)
       IN [p |-> c.p, move |-> c.move, outcome |-> session_outcome(c.move)]
  ELSE [ref EXCEPT !.move = NoMove]

Consume(t, junk) ==
  LET c == consume_token(parser, t, junk)
  IN /\ outcome = "running"
     /\ steps < MaxTokens
     /\ parser' = c.p
     /\ tok' = t
     /\ emitted' = c.move
     /\ nmoves' = IF c.move.kind \in {"NextMove", "KingCastling", "QueenCastling"}
                  THEN nmoves + 1 ELSE nmoves
     /\ stray' = (stray \/ c.move.kind = "Ignore")
     /\ ref' = ref_consume(t, junk)
     /\ balanced' = (balanced /\ c.p.paranthesis_count_ >= 0)
     /\ outcome' = session_outcome(c.move)
     /\ steps' = steps + 1
     /\ UNCHANGED <<boardVars, scanVars>>

ConsumeDummy == \E t \in DummyTokens : Consume(t, "NUL")
ConsumeParenthesis == \E t \in ParenTokens : Consume(t, "NUL")
ConsumeGrammar == \E t \in GrammarTokens, junk \in JunkChars : Consume(t, junk)

NextParser == ConsumeDummy \/ ConsumeParenthesis \/ ConsumeGrammar

SpecParser == InitParser /\ [][NextParser]_vars

InitBoard ==
  /\ board_ \in StartBoards
  /\ last = NoCall
  /\ IdleParser
  /\ IdleScanner
  /\ outcome = "running"
  /\ steps = 0

\* The en passant victim of a pawn capture from src to dst: the cell on the
\* row of src and the column of dst.
victim_cell(src, dst) == Coordinates(src.x, dst.y)

is_en_passant(b, val, src, dst) ==
  /\ val.piece = "P" /\ val.capture /\ b[dst.x][dst.y].piece = "."
  /\ b[src.x][dst.y].piece = "P"
  /\ b[src.x][dst.y].is_white # val.is_white_move
  /\ b[src.x][dst.y].double_move

\* What the input format promises of a half-move that apply resolved to
\* (src, dst) on board b: src holds the named piece of the mover, and the
\* capture mark is there iff an enemy piece is taken.
well_formed_move(b, val, src, dst) ==
  /\ b[src.x][src.y].piece = val.piece
  /\ b[src.x][src.y].is_white = val.is_white_move
  /\ val.capture <=> \/ /\ b[dst.x][dst.y].piece # "."
                        /\ b[dst.x][dst.y].is_white # val.is_white_move
                     \/ is_en_passant(b, val, src, dst)

side(is_white_move) == IF is_white_move THEN "white" ELSE "black"

\* Whether the calls so far, with this one, are those of a well-formed game:
\* every call returned, the two sides moved in turn, every half-move was
\* well-formed.
well_formed_after(a, move) ==
  /\ last.well_formed
  /\ a.ok
  /\ move.kind # "Ignore" => last.turn # side(move.is_white_move)
  /\ move.kind = "NextMove"
       => well_formed_move(board_, move, a.ev.final_src, a.ev.final_dst)

\* The record of the call apply(move) on board_ that left a.
call_record(a, move) ==
  [move |-> move, ok |-> a.ok, matches |-> a.ev.matches,
   src |-> a.ev.final_src, dst |-> a.ev.final_dst,
   before |-> board_,
   turn |-> IF move.kind = "Ignore" THEN last.turn ELSE side(move.is_white_move),
   well_formed |-> well_formed_after(a, move)]

\* One call b.apply(move); a failed INTERNAL_ASSERT ends the run.
Call(move, order) ==
  /\ outcome = "running"
  /\ steps < MaxPlies
  /\ \E a \in {apply(board_, move, order)} :
       /\ board_' = a.b
       /\ outcome' = IF a.ok THEN "running" ELSE "aborted"
       /\ last' = call_record(a, move)
  /\ steps' = steps + 1
  /\ UNCHANGED <<parserVars, scanVars>>

ApplyNextMove ==
  \E move \in MoveInputs, order \in Orders : move.kind = "NextMove" /\ Call(move, order)

ApplyKingCastling ==
  \E move \in MoveInputs : move.kind = "KingCastling" /\ Call(move, "ascending")

ApplyQueenCastling ==
  \E move \in MoveInputs : move.kind = "QueenCastling" /\ Call(move, "ascending")

ApplyIgnore ==
  \E move \in MoveInputs : move.kind = "Ignore" /\ Call(move, "ascending")

NextBoard == ApplyNextMove \/ ApplyKingCastling \/ ApplyQueenCastling \/ ApplyIgnore

SpecBoard == InitBoard /\ [][NextBoard]_vars

(***************************************************************************)
(* Lexer: the token types (tokens.h) and TokenScanner (scanner.h)          *)
(*                                                                         *)
(* A character is a string of length one, a text a tuple of characters.    *)
(***************************************************************************)
Digits == {"0", "1", "2", "3", "4", "5", "6", "7", "8", "9"}
Alphas ==
  {"a", "b", "c", "d", "e", "f", "g", "h", "i", "j", "k", "l", "m", "n", "o", "p",
   "q", "r", "s", "t", "u", "v", "w", "x", "y", "z",
   "A", "B", "C", "D", "E", "F", "G", "H", "I", "J", "K", "L", "M", "N", "O", "P",
   "Q", "R", "S", "T", "U", "V", "W", "X", "Y", "Z"}
\* The printable characters that are neither digit nor letter (the grave
\* accent, which no input uses, is left out).
Punctuation ==
  {" ", "!", "\"", "#", "$", "%", "&", "'", "(", ")", "*", "+", ",", "-", ".", "/",
   ":", ";", "<", "=", ">", "?", "@", "[", "\\", "]", "^", "_", "{", "|", "}", "~"}
isdigit(c) == c \in Digits
isalpha(c) == c \in Alphas
isprint(c) == c \in Digits \cup Alphas \cup Punctuation

\* A token while it is scanned: value_ of StringToken, SymbolToken and
\* IntegerToken, number_only_ of SymbolToken, first of NumericGlyphToken.
NewToken(type) ==
  [type |-> type, value_ |-> <<>>, number_only_ |-> TRUE, first |-> TRUE]

Accepted(result, t) == [r |-> result, t |-> t]

back(value_) == value_[Len(value_)]
pop_back(value_) == SubSeq(value_, 1, Len(value_) - 1)

\* accept of AsterkixToken, LeftBraceToken, RightBraceToken,
\* LeftParenthesisToken, RightParenthesisToken, NumericAnnotationToken
single_char_accept(t, c) == Accepted("TERMINATED_CONSUMED", t)

StringToken_accept(t, c) ==
  IF c = "\""
  THEN IF t.value_ = <<>>
       THEN Accepted("CONSUMED", t)
       ELSE IF back(t.value_) = "\\"
            THEN Accepted("CONSUMED", [t EXCEPT !.value_ = Append(pop_back(t.value_), c)])
            ELSE Accepted("TERMINATED_CONSUMED", t)
  ELSE IF c = "\\"
       THEN IF t.value_ = <<>> \/ back(t.value_) = "\\"
            THEN Accepted("CONSUMED", [t EXCEPT !.value_ = Append(t.value_, c)])
            ELSE Accepted("CONSUMED", t)
       ELSE IF isprint(c)
            THEN IF t.value_ # <<>> /\ back(t.value_) = "\\"
                 THEN Accepted("INVALID", t)
                 ELSE Accepted("CONSUMED", [t EXCEPT !.value_ = Append(t.value_, c)])
            ELSE Accepted("INVALID", t)

\* Mutant of PeriodToken_accept: the period hands back its own character.
PeriodToken_accept_hands_back(t, c) == Accepted("TERMINATED_NONCONSUMED", t)

PeriodToken_accept(t, c) ==
  IF c = "." THEN Accepted("TERMINATED_CONSUMED", t)
  ELSE Accepted("TERMINATED_NONCONSUMED", t)

\* Mutant of BraceComment_accept: the comment ends with its first character.
BraceComment_accept_first_char(t, c) == Accepted("TERMINATED_CONSUMED", t)

BraceComment_accept(t, c) ==
  IF c = "}" THEN Accepted("TERMINATED_CONSUMED", t) ELSE Accepted("CONSUMED", t)

\* LineComment::accept and EscapeToken::accept
LineComment_accept(t, c) ==
  IF c = "\n" THEN Accepted("TERMINATED_CONSUMED", t) ELSE Accepted("CONSUMED", t)

NumericGlyphToken_accept(t, c) ==
  IF isdigit(c) \/ (t.first /\ c = "$")
  THEN Accepted("CONSUMED", [t EXCEPT !.first = FALSE])
  ELSE Accepted("TERMINATED_NONCONSUMED", t)

is_symbol_char(c) ==
  isdigit(c) \/ isalpha(c) \/ c \in {":", "-", "_", "+", "=", "#", "/"}

SymbolToken_accept(t, c) ==
  IF is_symbol_char(c)
  THEN Accepted("CONSUMED",
                [t EXCEPT !.value_ = Append(t.value_, c),
                          !.number_only_ = t.number_only_ /\ isdigit(c)])
  ELSE Accepted("TERMINATED_NONCONSUMED", t)

\* t.accept(c) for the token type that current_token_ holds
accept(t, c) ==
  CASE t.type = "StringToken" -> StringToken_accept(t, c)
    [] t.type = "PeriodToken" -> PeriodToken_accept(t, c)
    [] t.type = "BraceComment" -> BraceComment_accept(t, c)
    [] t.type \in {"LineComment", "EscapeToken"} -> LineComment_accept(t, c)
    [] t.type = "NumericGlyphToken" -> NumericGlyphToken_accept(t, c)
    [] t.type = "SymbolToken" -> SymbolToken_accept(t, c)
    [] OTHER -> single_char_accept(t, c)

is_token_separator(c) == c \in {" ", "\n", "\t"}

\* The switch of scan_token on the first character of a token; "throw" for
\* a character that starts no token.
new_token_type(c) ==
  CASE c = "[" -> "LeftBraceToken"
    [] c = "]" -> "RightBraceToken"
    [] c = "(" -> "LeftParenthesisToken"
    [] c = ")" -> "RightParenthesisToken"
    [] c = "\"" -> "StringToken"
    [] c = "." -> "PeriodToken"
    [] c = "*" -> "AsterkixToken"
    [] c = "{" -> "BraceComment"
    [] c = "$" -> "NumericGlyphToken"
    [] c = ";" -> "LineComment"
    [] c = "%" -> "EscapeToken"
    [] OTHER -> IF isdigit(c) \/ isalpha(c) THEN "SymbolToken" ELSE "throw"

\* The scanner after construction, before the first scan_token.
TokenScanner == [c_ |-> "NUL", repeat_ |-> FALSE, eof |-> FALSE]

\* What scan_token leaves: "token" with current_token_, "end" when the
\* iterator became the end iterator (scanner_ = nullptr), "throw".
Scanned(status, t, unread, sc) ==
  [status |-> status, token |-> t, file_ |-> unread, sc |-> sc]

\* Mutant of terminated_nonconsumed: a symbol stays a symbol.
terminated_nonconsumed_as_symbol(t) == Token(t.type, t.value_)

\* A number-only symbol that ends on a character it does not take is
\* handed on as an IntegerToken.
terminated_nonconsumed(t) ==
  IF t.type = "SymbolToken" /\ t.number_only_
  THEN Token("IntegerToken", t.value_)
  ELSE Token(t.type, t.value_)

\* Mutant of retry: the character that ended the token is not kept.
retry_never(sc) == sc

\* repeat_ = true: the character in c_ is tried again by the next scan_token.
retry(sc) == [sc EXCEPT !.repeat_ = TRUE]

\* The while loop of scan_token: unread is what file_ still holds, t the token
\* under construction.
RECURSIVE scan_loop(_, _, _, _)
scan_loop(unread, sc, t, expecting_new_token) ==
  IF sc.eof
  THEN Scanned("end", Token("monostate", <<>>), unread, sc)
  ELSE IF ~sc.repeat_ /\ unread = <<>>
       THEN Scanned("end", Token("monostate", <<>>), unread, [sc EXCEPT !.eof = TRUE])
       ELSE
         LET c == IF sc.repeat_ THEN sc.c_ ELSE Head(unread)
             rest == IF sc.repeat_ THEN unread ELSE Tail(unread)
             read == [sc EXCEPT !.c_ = c, !.repeat_ = FALSE]
         IN IF expecting_new_token /\ is_token_separator(c)
            THEN scan_loop(rest, read, t, TRUE)
            ELSE IF expecting_new_token /\ new_token_type(c) = "throw"
                 THEN Scanned("throw", Token("monostate", <<>>), rest, [sc EXCEPT !.c_ = c])
                 ELSE
                   LET cur == IF expecting_new_token THEN NewToken(new_token_type(c)) ELSE t
                       a == accept(cur, c)
                   IN CASE a.r = "INVALID" ->
                             Scanned("throw", Token("monostate", <<>>), rest, [sc EXCEPT !.c_ = c])
                        [] a.r = "TERMINATED_CONSUMED" ->
                             Scanned("token", Token(a.t.type, a.t.value_), rest, read)
                        [] a.r = "TERMINATED_NONCONSUMED" ->
                             Scanned("token", terminated_nonconsumed(a.t), rest, retry(read))
                        [] OTHER -> scan_loop(rest, read, a.t, FALSE)

scan_token(unread, sc) == scan_loop(unread, sc, Token("monostate", <<>>), TRUE)

(***************************************************************************)
(* The replay: the token loop of main (chess_replay.cpp)                   *)
(*                                                                         *)
(* The input file is a lead-in, which takes the grammar driver to one of   *)
(* its states, followed by at most MaxWords words.                         *)
(***************************************************************************)
MaxWords == 2

LeadIns ==
  { <<>>,
    <<"[">>,
    <<"[", "E", "v", " ">>,
    <<"[", "E", "v", " ", "\"", "x", "\"">>,
    <<"[", "E", "v", " ", "\"", "x", "\"", "]">>,
    <<"1", " ">>,
    <<"1", ".">>,
    <<"1", ".", "e", "4", " ">> }

Words ==
  { <<"{", "(", "}">>,
    <<";", "(", "\n">>,
    <<"%", ")", "\n">>,
    <<"$", "1", " ">>,
    <<"(">>,
    <<")">>,
    <<"e", "5", " ">>,
    <<"*">> }

RECURSIVE Texts(_)
Texts(n) ==
  IF n = 0 THEN {<<>>}
  ELSE {<<>>} \cup { w \o t : w \in Words, t \in Texts(n - 1) }

\* A game in which the white b pawn reaches b8 and is promoted,
\* 1. b4 a5 2. bxa5 b6 3. axb6 Nc6 4. b7 h6 5. b8=Q *, and the same game
\* with the promotion spelled b8(Q).
PromotionGames ==
  { <<"1", ".", " ", "b", "4", " ", "a", "5", " ", "2", ".", " ", "b", "x",
      "a", "5", " ", "b", "6", " ", "3", ".", " ", "a", "x", "b", "6", " ",
      "N", "c", "6", " ", "4", ".", " ", "b", "7", " ", "h", "6", " ", "5",
      ".", " ", "b", "8", "=", "Q", " ", "*">>,
    <<"1", ".", " ", "b", "4", " ", "a", "5", " ", "2", ".", " ", "b", "x",
      "a", "5", " ", "b", "6", " ", "3", ".", " ", "a", "x", "b", "6", " ",
      "N", "c", "6", " ", "4", ".", " ", "b", "7", " ", "h", "6", " ", "5",
      ".", " ", "b", "8", "(", "Q", ")", " ", "*">> }

\* The game 1. e4 e5 2. Nf3, as the last bytes of the file and followed by
\* a blank.
ShortGames ==
  { <<"1", ".", " ", "e", "4", " ", "e", "5", " ", "2", ".", " ", "N", "f",
      "3">>,
    <<"1", ".", " ", "e", "4", " ", "e", "5", " ", "2", ".", " ", "N", "f",
      "3", " ">> }

\* A game that a result symbol ends, with a half-move after the symbol:
\* 1. e4 1-0 e5, and the same with 0-1 and with 1/2-1/2.
ResultGames ==
  { <<"1", ".", " ", "e", "4", " ">> \o result \o <<" ", "e", "5", " ">> :
      result \in { <<"1", "-", "0">>, <<"0", "-", "1">>,
                   <<"1", "/", "2", "-", "1", "/", "2">> } }

\* Games with an error after 1. e4 (after 1. for the castling) and a
\* half-move behind it: a character that starts no token, a line feed inside
\* a string, a bracket where a half-move stands, an unknown piece letter, a
\* castling over occupied cells, a pawn move onto an occupied cell.
ErrorGames ==
  { <<"1", ".", " ", "e", "4", " ">> \o bad \o <<" ", "e", "5", " ">> :
      bad \in { <<"!">>, <<"\"", "\n", "\"">>, <<"]">>, <<"X", "e", "5">>,
                <<"e", "5", " ", "e", "5">> } }
    \cup { <<"1", ".", " ", "O", "-", "O", " ", "e", "5", " ">> }

\* Header texts: a string left open at the end of the input; strings with
\* an escaped quote at their start, after an ordinary character and after
\* an escaped backslash; an empty string, followed by 1. e4; and a tag
\* pair followed by a comment and nested RAVs only: [Ev "x"]{e4}(e4 (d4));
\* and a number of two digits before a symbol that begins with a digit.
HeaderTexts ==
  { <<"[", "E", "v", " ", "\"", "x">>,
    <<"[", "E", "v", " ", "\"", "\\", "\"", "a", "\"", "]">>,
    <<"[", "E", "v", " ", "\"", "a", "\\", "\"", "b", "\"", "]">>,
    <<"[", "E", "v", " ", "\"", "\\", "\\", "\\", "\"", "a", "\"", "]">>,
    <<"[", "S", "i", "t", "e", " ", "\"", "\"", "]", " ", "1", ".", " ", "e", "4", " ">>,
    <<"[", "E", "v", " ", "\"", "x", "\"", "]", "{", "e", "4", "}", "(", "e", "4",
      " ", "(", "d", "4", ")", ")">>,
    <<"1", "2", ".", " ", "4", "e", " ">> }

\* Games with annotations between their half-moves:
\*   1. e4 d5 2. e5 f5 3. exf6 e.p. Nc6      the en passant annotation
\*   1. e4 (d4) e5                           a RAV with one half-move
\*   1. e4 (1. d4 d5 2. c4) e5               a RAV with three half-moves
\*   1. e4 (1. d4 1-0) e5                    a result symbol in a RAV
\*   1. e4 (1. d4 *) e5                      an asterisk in a RAV
\*   1. e4 ) ( e5                            a closing parenthesis first
AnnotatedGames ==
  { <<"1", ".", " ", "e", "4", " ", "d", "5", " ", "2", ".", " ", "e", "5", " ",
      "f", "5", " ", "3", ".", " ", "e", "x", "f", "6", " ", "e", ".", "p", ".",
      " ", "N", "c", "6", " ">> }
    \cup { <<"1", ".", " ", "e", "4", " ">> \o note \o <<" ", "e", "5", " ">> :
             note \in { <<"(", "d", "4", ")">>,
                        <<"(", "1", ".", " ", "d", "4", " ", "d", "5", " ", "2", ".",
                          " ", "c", "4", ")">>,
                        <<"(", "1", ".", " ", "d", "4", " ", "1", "-", "0", ")">>,
                        <<"(", "1", ".", " ", "d", "4", " ", "*", ")">>,
                        <<")", " ", "(">> } }

Inputs ==
  { l \o t : l \in LeadIns, t \in Texts(MaxWords) }
    \cup PromotionGames \cup ShortGames \cup ResultGames \cup ErrorGames
    \cup HeaderTexts \cup AnnotatedGames

InitReplay ==
  /\ file_ \in Inputs
  /\ scanner = TokenScanner
  /\ taken = <<>>
  /\ board_ = ChessBoard
  /\ last = NoCall
  /\ IdleParser
  /\ outcome = "running"
  /\ steps = 0

\* One turn of the loop `for (const auto& token : scanner)`: the iterator
\* scans a token, the driver consumes it, the board applies what the
\* driver returned.  The loop ends at the end iterator and on a Finish;
\* the board is then printed.  An exception or a failed INTERNAL_ASSERT
\* ends the program.
Iterate(junk, order) ==
  /\ outcome = "running"
  /\ \E s \in {scan_token(file_, scanner)} :
       \E c \in {consume_token(parser, s.token, junk)} :
         \E a \in {apply(board_, c.move, order)} :
           LET applies ==
                 /\ s.status = "token"
                 /\ c.move.kind \in {"NextMove", "KingCastling", "QueenCastling", "Ignore"}
           IN /\ file_' = s.file_
              /\ scanner' = s.sc
              /\ taken' = taken \o SubSeq(file_, 1, Len(file_) - Len(s.file_))
              /\ tok' = s.token
              /\ parser' = IF s.status = "token" THEN c.p ELSE parser
              /\ emitted' = IF s.status = "token" THEN c.move ELSE NoMove
              /\ board_' = IF applies THEN a.b ELSE board_
              /\ last' = IF applies THEN call_record(a, c.move) ELSE last
              /\ outcome' = CASE s.status = "end" -> "finished"
                              [] s.status = "throw" -> "error"
                              [] applies -> IF a.ok THEN "running" ELSE "aborted"
                              [] OTHER -> session_outcome(c.move)
  /\ steps' = steps + 1
  /\ UNCHANGED <<nmoves, stray, ref, balanced>>

\* Only a symbol reaches the move interpreter, which may read outside the
\* text, and the board, which visits the candidates in some order.
NextReplay ==
  LET s == scan_token(file_, scanner)
      symbol == s.status = "token" /\ s.token.type = "SymbolToken"
  IN \E junk \in (IF symbol THEN JunkChars ELSE {"NUL"}),
        order \in (IF symbol THEN Orders ELSE {"ascending"}) :
       Iterate(junk, order)

SpecReplay == InitReplay /\ [][NextReplay]_vars

(***************************************************************************)
(* Claims about the grammar driver (SpecParser)                            *)
(***************************************************************************)
DescriptorKinds == {"NextMove", "KingCastling", "QueenCastling", "Ignore", "Finish"}
HalfMoveKinds == {"NextMove", "KingCastling", "QueenCastling"}
Consuming == steps' = steps + 1
Toggled == parser'.white_turn # parser.white_turn

\* C1: removing a parenthesis-balanced RAV from the input changes nothing:
\* whenever every parenthesis read so far is closed, the driver has returned
\* for the last token what a driver that never saw the RAVs returned, and the
\* session stands as the session without the RAVs stands.
C1_RavRemovalNeutral ==
  (balanced /\ parser.paranthesis_count_ = 0)
    => (emitted = ref.move /\ outcome = ref.outcome)

\* C3: no descriptor is emitted while the parenthesis depth is above 0; an
\* LPAREN raises the depth by one, an RPAREN lowers it by one, no other atom
\* changes it, and a descriptor is emitted only at depth 0.
C3_NoEmissionInsideRav ==
  [][Consuming =>
       /\ tok'.type = "LeftParenthesisToken"
            => parser'.paranthesis_count_ = parser.paranthesis_count_ + 1
       /\ tok'.type = "RightParenthesisToken"
            => parser'.paranthesis_count_ = parser.paranthesis_count_ - 1
       /\ tok' \notin ParenTokens
            => parser'.paranthesis_count_ = parser.paranthesis_count_
       /\ parser'.paranthesis_count_ > 0 => emitted'.kind \notin DescriptorKinds
       /\ emitted'.kind \in DescriptorKinds => parser.paranthesis_count_ = 0]_vars

\* C3 witness: a symbol was consumed at depth 2 and nothing was emitted.
C3_Witness ==
  /\ parser.paranthesis_count_ = 2
  /\ tok.type = "SymbolToken"
  /\ parser.state_ = "ParsingMove"
  /\ emitted = NoMove

\* C4 as claimed: the white-turn flag changes exactly when a NextMove is emitted.
C4_ToggleOnlyOnNextMove ==
  [][Consuming => (Toggled <=> emitted'.kind = "NextMove")]_vars

\* C4 as amended: the flag changes exactly when a SYMBOL is accepted into the
\* Move state at depth 0 and its text is given to the move interpreter; so
\* every NextMove, castling and Ignore and the Finish of a result symbol
\* toggles it, and the Finish of `*` and an atom consumed without a
\* descriptor leave it unchanged.
C4_ToggleOnInterpretedSymbol ==
  [][Consuming =>
       /\ Toggled <=> /\ tok'.type = "SymbolToken"
                      /\ parser'.state_ = "ParsingMove"
                      /\ parser'.paranthesis_count_ = 0
       /\ emitted'.kind \in (HalfMoveKinds \cup {"Ignore"}) => Toggled
       /\ (emitted'.kind = "Finish" /\ emitted'.marker # "MANUAL") => Toggled
       /\ (emitted' = Finish("MANUAL") \/ emitted' = NoMove) => ~Toggled]_vars

\* C4 witness: a castling was emitted as the first half-move, as white: the
\* flag, false after construction, was toggled for it.
C4_Witness ==
  /\ emitted.kind = "KingCastling"
  /\ emitted.is_white_move
  /\ parser.white_turn
  /\ nmoves = 1

\* C5: with no stray `e`/`p` symbol, the k-th emitted half-move (NextMove
\* or castling) is white iff k is odd.
C5_KthHalfMoveColour ==
  (~stray /\ emitted.kind \in HalfMoveKinds)
    => (emitted.is_white_move <=> nmoves % 2 = 1)

\* C5 witness: the third half-move emitted is a NextMove for white.
C5_Witness ==
  /\ ~stray
  /\ nmoves = 3
  /\ emitted.kind = "NextMove"
  /\ emitted.is_white_move

(***************************************************************************)
(* Claims about the board engine (SpecBoard)                               *)
(***************************************************************************)
Applying == steps' = steps + 1 /\ last'.move.kind = "NextMove"

\* The legality test of apply for one pair, taken on the board as it is
\* when apply is called.
passes_legality(b, val, src, dst) ==
  /\ is_locked(b, src, dst, val.capture, val.is_white_move) = "free"
  /\ can_move(b, val.piece, src, dst, val.capture, val.is_white_move).result

legal_pairs(b, val) ==
  IF val.piece = NulPiece \/ val.dst.y = NoValue
  THEN {}
  ELSE { pair \in src_candidates(b, val) \X dst_candidates(b, val) :
           passes_legality(b, val, pair[1], pair[2]) }

\* C6: apply(NextMove) returns iff exactly one pair of a source candidate
\* and a destination candidate passes the legality test; with no such pair
\* or more than one the run ends in a fatal error.
C6_ExactlyOneLegalPair ==
  [][Applying =>
       /\ last'.ok <=> Cardinality(legal_pairs(board_, last'.move)) = 1
       /\ ~last'.ok => outcome' = "aborted"]_vars

Cells == { Coordinates(x, y) : x \in Idx, y \in Idx }
flagged(b) == { c \in Cells : b[c.x][c.y].double_move }
non_empty(b) == { c \in Cells : b[c.x][c.y].piece # "." }
AppliedNextMove == last.move.kind = "NextMove" /\ last.ok
AppliedCastling == last.move.kind \in {"KingCastling", "QueenCastling"} /\ last.ok

\* C7: after the applied moves of a well-formed game at most one cell of
\* the board has double_move = true.
C7_AtMostOneFlag ==
  last.well_formed => Cardinality(flagged(board_)) <= 1

\* C8: every cell with double_move = true holds a pawn, on row 4 if the
\* pawn is white and on row 3 if it is black.
C8_FlagOnlyOnDoublePushedPawn ==
  last.well_formed =>
    \A c \in flagged(board_) :
      /\ board_[c.x][c.y].piece = "P"
      /\ c.x = IF board_[c.x][c.y].is_white THEN 4 ELSE 3

\* C9: in a well-formed game an applied NextMove leaves the number of
\* non-empty cells unchanged when it is no capture and lowers it by one when
\* it is a capture (en passant too), and an applied castling leaves the
\* number unchanged.
C9_PieceCount ==
  /\ (last.well_formed /\ AppliedNextMove)
       => Cardinality(non_empty(board_))
            = Cardinality(non_empty(last.before)) - (IF last.move.capture THEN 1 ELSE 0)
  /\ (last.well_formed /\ AppliedCastling)
       => Cardinality(non_empty(board_)) = Cardinality(non_empty(last.before))

\* C9 witness: an en passant capture of a well-formed game was applied and
\* the board has one piece less.
C9_Witness ==
  /\ last.well_formed /\ AppliedNextMove
  /\ is_en_passant(last.before, last.move, last.src, last.dst)
  /\ Cardinality(non_empty(board_)) = Cardinality(non_empty(last.before)) - 1

same_piece_and_colour(b1, b2, c) ==
  /\ b1[c.x][c.y].piece = b2[c.x][c.y].piece
  /\ b1[c.x][c.y].is_white = b2[c.x][c.y].is_white

\* C10 as claimed: after an applied NextMove exactly the source cell became
\* empty, and the destination is the one other cell whose piece or colour
\* changed.
C10_OnlySourceAndDestinationChange ==
  (last.well_formed /\ AppliedNextMove) =>
    /\ non_empty(last.before) \ non_empty(board_) = {last.src}
    /\ { c \in Cells \ {last.src} : ~same_piece_and_colour(last.before, board_, c) }
         = {last.dst}

\* C10 as amended: after an applied NextMove the source cell is empty, the
\* destination holds the moved (or promoted) piece in the mover's colour,
\* and every other cell has the piece and colour it had, but for the cell of
\* the pawn taken en passant, which is empty.
C10_SourceDestinationAndEnPassantVictim ==
  AppliedNextMove =>
    LET ep == is_en_passant(last.before, last.move, last.src, last.dst)
        vc == victim_cell(last.src, last.dst)
    IN /\ board_[last.src.x][last.src.y].piece = "."
       /\ board_[last.dst.x][last.dst.y].piece =
            (IF last.move.promote_piece # NoPiece
             THEN last.move.promote_piece ELSE last.move.piece)
       /\ board_[last.dst.x][last.dst.y].is_white = last.move.is_white_move
       /\ ep => board_[vc.x][vc.y].piece = "."
       /\ \A c \in Cells \ {last.src, last.dst} :
            (~ep \/ c # vc) => same_piece_and_colour(last.before, board_, c)

\* C10 witness: an en passant capture was applied: the source and the
\* victim's cell both became empty.
C10_Witness ==
  /\ AppliedNextMove
  /\ is_en_passant(last.before, last.move, last.src, last.dst)
  /\ non_empty(last.before) \ non_empty(board_)
       = {last.src, victim_cell(last.src, last.dst)}

(***************************************************************************)
(* Claims about the replay (SpecReplay)                                    *)
(***************************************************************************)
DummyTypes == {"BraceComment", "LineComment", "EscapeToken", "NumericGlyphToken"}

\* The RAV depth of a text as the input format defines it: the left minus
\* the right parentheses that stand outside brace comments, line comments
\* and escape lines.
RECURSIVE rav_depth_from(_, _, _, _)
rav_depth_from(text, i, mode, depth) ==
  IF i > Len(text)
  THEN depth
  ELSE LET c == text[i]
       IN CASE mode = "brace" ->
                 rav_depth_from(text, i + 1, IF c = "}" THEN "text" ELSE "brace", depth)
            [] mode = "line" ->
                 rav_depth_from(text, i + 1, IF c = "\n" THEN "text" ELSE "line", depth)
            [] OTHER ->
                 CASE c = "{" -> rav_depth_from(text, i + 1, "brace", depth)
                   [] c \in {";", "%"} -> rav_depth_from(text, i + 1, "line", depth)
                   [] c = "(" -> rav_depth_from(text, i + 1, "text", depth + 1)
                   [] c = ")" -> rav_depth_from(text, i + 1, "text", depth - 1)
                   [] OTHER -> rav_depth_from(text, i + 1, "text", depth)

rav_depth(text) == rav_depth_from(text, 1, "text", 0)

\* The characters taken from the file and dealt with: a character that
\* ended a token without being part of it is still to be scanned.
scanned_text ==
  IF scanner.repeat_ THEN SubSeq(taken, 1, Len(taken) - 1) ELSE taken

\* C2: a brace comment, line comment, escape line or numeric glyph leaves
\* the driver's state, depth and white-turn flag as they were, yields no
\* descriptor and leaves the board as it was; and the depth counts the
\* parentheses outside comments only, those inside a brace comment are no
\* RAV delimiters.
C2_DummyAtomsChangeNothing ==
  [][Consuming =>
       /\ tok'.type \in DummyTypes
            => /\ parser' = parser
               /\ emitted' = NoMove
               /\ board_' = board_
               /\ outcome' = "running"
       /\ parser'.paranthesis_count_ = rav_depth(scanned_text')]_vars

\* C2 witness: after a half-move was applied a brace comment that holds a
\* left parenthesis was consumed, and the depth is 0.
C2_Witness ==
  /\ tok.type = "BraceComment"
  /\ Len(taken) >= 3
  /\ taken[Len(taken) - 1] = "("
  /\ parser.state_ = "ParsingMove"
  /\ parser.paranthesis_count_ = 0
  /\ last.move.kind = "NextMove" /\ last.ok

(***************************************************************************)
(* Claims about the legality tests of the board engine (SpecBoard)         *)
(***************************************************************************)
\* C11: an applied NextMove landed validly: without the capture flag the
\* destination was empty; with it, unless the move is an en passant capture,
\* the destination held a piece of the other colour that is no king.  So a
\* capture by R, N, B, Q or K onto an empty cell is never applied.
C11_ValidLanding ==
  AppliedNextMove =>
    LET dst_cell == last.before[last.dst.x][last.dst.y]
    IN IF last.move.capture
       THEN \/ is_en_passant(last.before, last.move, last.src, last.dst)
            \/ /\ dst_cell.piece # "."
               /\ dst_cell.is_white # last.move.is_white_move
               /\ dst_cell.piece # "K"
       ELSE dst_cell.piece = "."

\* A pawn capture onto a cell that was empty was applied.
AppliedPawnCaptureOntoEmpty ==
  /\ AppliedNextMove
  /\ last.move.piece = "P" /\ last.move.capture
  /\ last.before[last.dst.x][last.dst.y].piece = "."

\* C12: a pawn capture onto an empty destination is applied only as an en
\* passant capture: one row forward and one column aside, the cell on the
\* source's row and the destination's column held an enemy pawn with
\* double_move set; afterwards that cell and the source are empty, the
\* mover's pawn stands on the destination, and none of the three cells has
\* double_move set.
C12_EnPassantCapture ==
  AppliedPawnCaptureOntoEmpty =>
    LET vc == victim_cell(last.src, last.dst)
        victim == last.before[vc.x][vc.y]
    IN /\ abs(last.dst.y - last.src.y) = 1
       /\ last.dst.x - last.src.x = (IF last.move.is_white_move THEN -1 ELSE 1)
       /\ victim.piece = "P"
       /\ victim.is_white # last.move.is_white_move
       /\ victim.double_move
       /\ board_[vc.x][vc.y].piece = "."
       /\ board_[last.src.x][last.src.y].piece = "."
       /\ board_[last.dst.x][last.dst.y].piece = "P"
       /\ board_[last.dst.x][last.dst.y].is_white = last.move.is_white_move
       /\ \A c \in {vc, last.src, last.dst} : ~board_[c.x][c.y].double_move

\* C12 witness: the white pawn of c5 took the black pawn that had just come
\* to b5 and stands on b6.
C12_Witness ==
  /\ AppliedPawnCaptureOntoEmpty
  /\ last.move.is_white_move
  /\ last.src = Coordinates(r("5"), f("c"))
  /\ last.dst = Coordinates(r("6"), f("b"))
  /\ board_[r("5")][f("b")].piece = "."

\* The cell k steps from c in direction i, the cells with a piece on the
\* ray from c in direction i, and the first of them (Nowhere if none).
Nowhere == Coordinates(NoValue, NoValue)
opposite(i) == (i + NBoard \div 2) % NBoard
cell_at(c, i, k) == Coordinates(c.x + k * d[i + 1].dx, c.y + k * d[i + 1].dy)
pieces_along(b, c, i) ==
  { k \in 1 .. (NBoard - 1) :
      cell_at(c, i, k) \in Cells /\ b[cell_at(c, i, k).x][cell_at(c, i, k).y].piece # "." }
first_met(b, c, i) ==
  LET ks == pieces_along(b, c, i)
  IN IF ks = {} THEN Nowhere ELSE cell_at(c, i, CHOOSE k \in ks : \A j \in ks : k <= j)

is_own_king_at(b, c, is_white_move) ==
  c # Nowhere /\ b[c.x][c.y].piece = "K" /\ b[c.x][c.y].is_white = is_white_move

\* An enemy piece at c that attacks along direction i: a queen, a rook on a
\* rank or file (i even), a bishop on a diagonal (i odd).
is_pinning(b, c, i, is_white_move) ==
  /\ c # Nowhere
  /\ b[c.x][c.y].is_white # is_white_move
  /\ \/ b[c.x][c.y].piece = "Q"
     \/ b[c.x][c.y].piece = "R" /\ i % 2 = 0
     \/ b[c.x][c.y].piece = "B" /\ i % 2 = 1

\* The directions i in which c is pinned: the mover's king is the first
\* piece met along i, a pinning enemy piece the first met along the opposite.
pin_rays(b, c, is_white_move) ==
  { i \in 0 .. (NBoard - 1) :
      /\ is_own_king_at(b, first_met(b, c, i), is_white_move)
      /\ is_pinning(b, first_met(b, c, opposite(i)), i, is_white_move) }

on_line(c, dst, i) ==
  \E k \in 1 .. (NBoard - 1) : dst = cell_at(c, i, k) \/ dst = cell_at(c, opposite(i), k)

pinned_off_line(b, c, dst, is_white_move) ==
  \E i \in pin_rays(b, c, is_white_move) : ~on_line(c, dst, i)

\* The source candidates of a half-move that reach its destination by the
\* rule of their piece.
reachers(b, val) ==
  { c \in src_candidates(b, val) :
      can_move(b, val.piece, c, val.dst, val.capture, val.is_white_move).result }

\* C13: a piece that stands between its own king (first piece met along
\* ray i) and an enemy queen, rook (i even) or bishop (i odd) (first piece
\* met along the opposite ray) is locked for every destination off that
\* line; an applied half-move never took such a piece off its line; and a
\* half-move whose destination is reached by pinned pieces and by exactly
\* one piece that is not pinned is applied with that piece as its source.
C13_PinnedPieceStays ==
  /\ \A c \in non_empty(board_) :
       \A i \in pin_rays(board_, c, board_[c.x][c.y].is_white) :
         \A dst \in Cells \ {c} :
           ~on_line(c, dst, i)
             => \A capture \in BOOLEAN :
                  is_locked(board_, c, dst, capture, board_[c.x][c.y].is_white) = "locked"
  /\ AppliedNextMove
       => ~pinned_off_line(last.before, last.src, last.dst, last.move.is_white_move)
  /\ (last.move.kind = "NextMove" /\ last.move.dst.x # NoValue /\ last.move.dst.y # NoValue)
       => LET reach == reachers(last.before, last.move)
              pinned == { c \in reach :
                            pinned_off_line(last.before, c, last.move.dst,
                                            last.move.is_white_move) }
              unpinned == { c \in reach :
                              pin_rays(last.before, c, last.move.is_white_move) = {} }
          IN (pinned # {} /\ Cardinality(unpinned) = 1 /\ reach = pinned \cup unpinned)
               => (last.ok /\ last.src \in unpinned)

\* C13 witness: Nd3 on the board of test_locked_moves was applied with the
\* knight of e1, the knight of c1 being pinned by the rook of a1.
C13_Witness ==
  /\ AppliedNextMove
  /\ last.move.piece = "N" /\ ~last.move.capture
  /\ last.dst = Coordinates(r("3"), f("d"))
  /\ last.src = Coordinates(r("1"), f("e"))
  /\ pinned_off_line(last.before, Coordinates(r("1"), f("c")), last.dst, TRUE)
  /\ Coordinates(r("1"), f("c")) \in reachers(last.before, last.move)

\* C14: a pinned piece is free to move along the line of the pin: for a
\* piece between its own king and the pinning enemy piece, is_locked is
\* false for every cell of the line strictly between the king and the
\* attacker, and for the capture of the attacker it is true only when the
\* cell directly behind the attacker holds another attacking enemy slider.
C14_FreeAlongPinLine ==
  \A c \in non_empty(board_) :
    LET is_white_move == board_[c.x][c.y].is_white
    IN \A i \in pin_rays(board_, c, is_white_move) :
         LET attacker == first_met(board_, c, opposite(i))
             behind == cell_at(attacker, opposite(i), 1)
             between == { cell_at(c, i, k) : k \in 1 .. (NBoard - 1) }
                          \cup { cell_at(c, opposite(i), k) : k \in 1 .. (NBoard - 1) }
         IN /\ \A dst \in between \cap Cells :
                 board_[dst.x][dst.y].piece = "."
                   => is_locked(board_, c, dst, FALSE, is_white_move) = "free"
            /\ is_locked(board_, c, attacker, TRUE, is_white_move)
                 = (IF behind \in Cells /\ is_pinning(board_, behind, i, is_white_move)
                    THEN "locked" ELSE "free")

(***************************************************************************)
(* Claims about castling (SpecBoard)                                       *)
(***************************************************************************)
\* The columns of a castling: where king and rook stand and where they go.
KingColumn == 4
castling_columns(kind) ==
  IF kind = "KingCastling"
  THEN [king_to |-> 6, rook_from |-> 7, rook_to |-> 5]
  ELSE [king_to |-> 2, rook_from |-> 0, rook_to |-> 3]
back_row(is_white_move) == IF is_white_move THEN 7 ELSE 0

\* The mover's king and rook stood on their standard squares before the call.
on_standard_squares(b, move) ==
  LET row == back_row(move.is_white_move)
      cols == castling_columns(move.kind)
  IN /\ b[row][KingColumn].piece = "K"
     /\ b[row][KingColumn].is_white = move.is_white_move
     /\ b[row][cols.rook_from].piece = "R"
     /\ b[row][cols.rook_from].is_white = move.is_white_move

\* C15: with king and rook on their standard squares an applied castling
\* puts the king on column 6 and the rook on column 5 (king side) or the
\* king on column 2 and the rook on column 3 (queen side), on row 7 for
\* white and row 0 for black, in the mover's colour; the two squares they
\* left are empty and every other cell is as it was.
C15_CastlingMovesKingAndRook ==
  (AppliedCastling /\ on_standard_squares(last.before, last.move)) =>
    LET row == back_row(last.move.is_white_move)
        cols == castling_columns(last.move.kind)
    IN /\ board_[row][cols.king_to].piece = "K"
       /\ board_[row][cols.king_to].is_white = last.move.is_white_move
       /\ board_[row][cols.rook_to].piece = "R"
       /\ board_[row][cols.rook_to].is_white = last.move.is_white_move
       /\ board_[row][KingColumn].piece = "."
       /\ board_[row][cols.rook_from].piece = "."
       /\ \A c \in Cells :
            (c.x # row \/ c.y \notin {KingColumn, cols.king_to, cols.rook_from, cols.rook_to})
              => board_[c.x][c.y] = last.before[c.x][c.y]

\* C15 witness: black castled queen side: king on c8, rook on d8.
C15_Witness ==
  /\ AppliedCastling /\ on_standard_squares(last.before, last.move)
  /\ last.move.kind = "QueenCastling" /\ ~last.move.is_white_move
  /\ board_[0][2].piece = "K" /\ board_[0][3].piece = "R"

\* The squares strictly between the king's and the rook's standard squares.
between_king_and_rook(move) ==
  { Coordinates(back_row(move.is_white_move), y) :
      y \in (IF move.kind = "KingCastling" THEN {5, 6} ELSE {1, 2, 3}) }

\* C16: a castling ends in a fatal error and leaves the board as it was
\* unless every square strictly between the king's and the rook's standard
\* squares is empty: columns 5 and 6 king side, columns 1, 2 and 3 queen side.
C16_CastlingNeedsEmptySquares ==
  last.move.kind \in {"KingCastling", "QueenCastling"} =>
    \/ \A c \in between_king_and_rook(last.move) : last.before[c.x][c.y].piece = "."
    \/ ~last.ok /\ outcome = "aborted" /\ board_ = last.before

(***************************************************************************)
(* The move interpreter and the board on promotions, as                    *)
(* test_pawn_board_moves drives them: a cleared board with one pawn, then  *)
(* apply(MoveFactory()(text, white_move)) for a promotion text.            *)
(***************************************************************************)
\* The four spellings of the promotion to piece on the square file, rank.
promotion_texts(file, rank, piece) ==
  { <<file, rank, "=", piece>>, <<file, rank, "/", piece>>,
    <<file, rank, "(", piece, ")">>, <<file, rank, piece>> }

\* The cell a pawn of the colour comes from when it steps onto dst.
pawn_origin(dst, is_white_move) ==
  Coordinates(dst.x + (IF is_white_move THEN 1 ELSE -1), dst.y)

InitPromotion ==
  /\ \E file \in { FileChars[i] : i \in 1 .. NBoard },
        rank \in { RankChars[i] : i \in 1 .. NBoard }, piece \in Pieces,
        white_move \in BOOLEAN :
       LET src == pawn_origin(Coordinates(r(rank), f(file)), white_move)
       IN /\ in_range(src.x)
          /\ board_ = manualy_set_cell(clear, src, Cell(white_move, "P"))
          /\ \E text \in promotion_texts(file, rank, piece) :
               tok = Token("SymbolToken", text)
  /\ last = NoCall
  /\ parser = PGNParser
  /\ emitted = NoMove
  /\ nmoves = 0
  /\ stray = FALSE
  /\ ref = [p |-> PGNParser, move |-> NoMove, outcome |-> "running"]
  /\ balanced = TRUE
  /\ IdleScanner
  /\ outcome = "running"
  /\ steps = 0

\* b.apply(MoveFactory()(text, white_move)) for the pawn's colour.
Promote ==
  /\ outcome = "running"
  /\ steps = 0
  /\ \E src \in non_empty(board_), junk \in JunkChars, order \in Orders :
       \E move \in {MoveFactory(tok.value_, board_[src.x][src.y].is_white, junk)} :
         \E a \in {apply(board_, move, order)} :
           /\ emitted' = move
           /\ board_' = IF move.kind = "NextMove" THEN a.b ELSE board_
           /\ last' = IF move.kind = "NextMove" THEN call_record(a, move) ELSE last
           /\ outcome' = IF move.kind = "NextMove"
                          THEN (IF a.ok THEN "running" ELSE "aborted")
                          ELSE session_outcome(move)
  /\ steps' = steps + 1
  /\ UNCHANGED <<parser, tok, nmoves, stray, ref, balanced, scanVars>>

SpecPromotion == InitPromotion /\ [][Promote]_vars

\* The piece, destination and pawn colour a promotion text of the session
\* stands for, read off the text and the board the session began with.
promoted_piece == IF Len(tok.value_) = 3 THEN tok.value_[3] ELSE tok.value_[4]
promotion_dst == Coordinates(r(tok.value_[2]), f(tok.value_[1]))

\* C17: each of the four promotion spellings of a square and a piece X is
\* interpreted as the same descriptor: a NextMove of a pawn to that square
\* with promote_piece X, no flag and no source hint; and applying it puts X
\* in the mover's colour on the square and empties the pawn's cell.
C17_PromotionSpellingsEquivalent ==
  steps = 1 =>
    LET white_move == last.move.is_white_move
        src == pawn_origin(promotion_dst, white_move)
    IN /\ emitted.kind = "NextMove"
       /\ \E w \in BOOLEAN :
            emitted = [NextMove(w) EXCEPT !.piece = "P", !.dst = promotion_dst,
                                          !.promote_piece = promoted_piece]
       /\ last.move = emitted /\ last.ok /\ outcome = "running"
       /\ last.before[src.x][src.y] = Cell(white_move, "P")
       /\ board_[promotion_dst.x][promotion_dst.y].piece = promoted_piece
       /\ board_[promotion_dst.x][promotion_dst.y].is_white = white_move
       /\ board_[src.x][src.y].piece = "."
       /\ non_empty(board_) = {promotion_dst}

\* C17 witness: the bracket spelling b8(Q) was applied for a white pawn of
\* b7: a white queen stands on b8.
C17_Witness ==
  /\ steps = 1
  /\ tok.value_ = <<"b", "8", "(", "Q", ")">>
  /\ board_[0][1] = Cell(TRUE, "Q")
  /\ board_[1][1].piece = "."

(***************************************************************************)
(* Claims about the whole pipeline (SpecReplay)                            *)
(***************************************************************************)
\* C18: the replay of a game whose last half-move is the promotion on b8,
\* spelled b8=Q or b8(Q), ends with a white queen on b8 and b7 empty.
C18_BracketPromotionReplays ==
  (outcome = "finished" /\ taken \in PromotionGames) =>
    /\ board_[r("8")][f("b")].piece = "Q"
    /\ board_[r("8")][f("b")].is_white
    /\ board_[r("7")][f("b")].piece = "."

\* The characters a step dealt with: what scanned_text gained.
scanned_segment == SubSeq(scanned_text', Len(scanned_text) + 1, Len(scanned_text'))

\* A text without the separators it begins with.
without_leading_separators(text) ==
  LET idx == { i \in 1 .. Len(text) : ~is_token_separator(text[i]) }
  IN IF idx = {} THEN <<>>
     ELSE SubSeq(text, CHOOSE i \in idx : \A j \in idx : i <= j, Len(text))

\* The one character of a token type that is a single character.
single_char_of(type) ==
  CASE type = "LeftBraceToken" -> "["
    [] type = "RightBraceToken" -> "]"
    [] type = "LeftParenthesisToken" -> "("
    [] type = "RightParenthesisToken" -> ")"
    [] type = "AsterkixToken" -> "*"
    [] type = "PeriodToken" -> "."
    [] OTHER -> "NUL"

\* Whether atom, a stretch of the input, is the text of the token.
spells(token, atom) ==
  /\ atom # <<>>
  /\ CASE token.type = "SymbolToken" ->
             atom = token.value_ /\ \E i \in 1 .. Len(atom) : atom[i] \notin Digits
        [] token.type = "IntegerToken" ->
             atom = token.value_ /\ \A i \in 1 .. Len(atom) : atom[i] \in Digits
        [] token.type = "StringToken" ->
             Len(atom) >= 2 /\ atom[1] = "\"" /\ atom[Len(atom)] = "\""
        [] token.type = "BraceComment" ->
             /\ atom[1] = "{" /\ atom[Len(atom)] = "}"
             /\ \A i \in 1 .. (Len(atom) - 1) : atom[i] # "}"
        [] token.type \in {"LineComment", "EscapeToken"} ->
             /\ atom[1] = (IF token.type = "LineComment" THEN ";" ELSE "%")
             /\ atom[Len(atom)] = "\n"
             /\ \A i \in 1 .. (Len(atom) - 1) : atom[i] # "\n"
        [] token.type = "NumericGlyphToken" ->
             atom[1] = "$" /\ \A i \in 2 .. Len(atom) : atom[i] \in Digits
        [] OTHER -> atom = <<single_char_of(token.type)>>

C20_LastAtomReachesDriver ==
  (outcome = "finished" /\ taken \in ShortGames) =>
    /\ board_[r("4")][f("e")].piece = "P" /\ board_[r("4")][f("e")].is_white
    /\ board_[r("5")][f("e")].piece = "P" /\ ~board_[r("5")][f("e")].is_white
    /\ board_[r("3")][f("f")].piece = "N" /\ board_[r("3")][f("f")].is_white
    /\ board_[r("1")][f("g")].piece = "."

(***************************************************************************)
(* Claims about the end of the session (SpecReplay)                        *)
(***************************************************************************)
\* C21: once a Finish descriptor was emitted (by 1-0, 0-1, 1/2-1/2 or `*` at
\* depth 0) the replay has stopped: the session stands as finished, and from
\* then on no character is read, no token is given to the driver, apply is
\* not called and the board does not change, whatever is left of the input.
C21_FinishStopsReplay ==
  [][emitted.kind = "Finish" =>
       /\ outcome = "finished"
       /\ UNCHANGED <<board_, last, parser, tok, file_, taken>>]_vars

\* C21 witness: the result symbol 1-0 was interpreted as a Finish after the
\* half-move e4 was applied, and a half-move is left unread after it.
C21_Witness ==
  /\ emitted = Finish("WHITE_WON")
  /\ outcome = "finished"
  /\ file_ = <<"e", "5", " ">>
  /\ last.move.kind = "NextMove" /\ last.ok
  /\ board_[r("4")][f("e")].piece = "P"
  /\ board_[r("5")][f("e")].piece = "."

\* How a step of the replay failed, if it did: the scanner threw (no token
\* and the stream not at its end), the driver threw or a check inside it
\* failed, or apply was called and did not return.
lexical_error == tok.type = "monostate" /\ ~scanner.eof /\ taken # <<>>
driver_error == emitted.kind \in {"Throw", "Abort", "Undefined"}
board_error == last.move = emitted /\ emitted.kind \in DescriptorKinds /\ ~last.ok
failed_step == lexical_error \/ driver_error \/ board_error

RECURSIVE string_open_from(_, _, _)
string_open_from(text, i, mode) ==
  IF i > Len(text)
  THEN mode \in {"string", "escape"}
  ELSE LET c == text[i]
       IN CASE mode = "brace" ->
                 string_open_from(text, i + 1, IF c = "}" THEN "text" ELSE "brace")
            [] mode = "line" ->
                 string_open_from(text, i + 1, IF c = "\n" THEN "text" ELSE "line")
            [] mode = "escape" -> string_open_from(text, i + 1, "string")
            [] mode = "string" ->
                 string_open_from(text, i + 1,
                                  CASE c = "\\" -> "escape"
                                    [] c = "\"" -> "text"
                                    [] OTHER -> "string")
            [] OTHER ->
                 string_open_from(text, i + 1,
                                  CASE c = "{" -> "brace"
                                    [] c \in {";", "%"} -> "line"
                                    [] c = "\"" -> "string"
                                    [] OTHER -> "text")

string_open(text) == string_open_from(text, 1, "text")

\* C23: a replay that reached the end of its input and ended as finished
\* did not end inside a string: a string still open when the input ends
\* is an error, not a silent end of the atoms.
C23_OpenStringIsAnError ==
  (outcome = "finished" /\ scanner.eof) => ~string_open(taken)

\* The position in atom, a stretch of input that begins with the quote that
\* opens a string, of the first later quote that no backslash escapes;
\* 0 when there is none.
RECURSIVE closing_quote_from(_, _)
closing_quote_from(atom, i) ==
  IF i > Len(atom) THEN 0
  ELSE IF atom[i] = "\\" THEN closing_quote_from(atom, i + 2)
  ELSE IF atom[i] = "\"" THEN i
  ELSE closing_quote_from(atom, i + 1)

closing_quote(atom) == closing_quote_from(atom, 2)

\* C24: a STRING atom ends at the first quote that no backslash escapes and
\* nowhere else: an escaped quote never ends it, whether the backslash stands
\* at the start of the string, after ordinary characters or after another
\* escaped character; so the stretch of input of every emitted STRING is
\* the opening quote up to that first unescaped quote.
C24_EscapedQuoteDoesNotEnd ==
  [][(Consuming /\ tok'.type = "StringToken") =>
       LET atom == without_leading_separators(scanned_segment)
       IN atom # <<>> /\ atom[1] = "\"" /\ closing_quote(atom) = Len(atom)]_vars

\* The input that is still to be scanned: what is unread, behind the
\* character kept for the next token if there is one.
to_scan ==
  without_leading_separators(
    (IF scanner.repeat_ THEN <<scanner.c_>> ELSE <<>>) \o file_)

\* C25: a string closes on the quote that follows the opening quote when
\* nothing lies between them: a step that finds two quotes in a row at the
\* start of what it scans emits one STRING with the empty value, made of
\* these two characters, and what follows them is left for the next atom.
C25_EmptyString ==
  [][(Consuming /\ Len(to_scan) >= 2 /\ to_scan[1] = "\"" /\ to_scan[2] = "\"") =>
       /\ tok' = Token("StringToken", <<>>)
       /\ without_leading_separators(scanned_segment) = <<"\"", "\"">>
       /\ to_scan' = without_leading_separators(SubSeq(to_scan, 3, Len(to_scan)))]_vars

(***************************************************************************)
(* Claims about the position a session starts from (SpecReplay)            *)
(***************************************************************************)
\* The standard starting position, row by row from rank 8 to rank 1:
\* lower case for black, upper case for white.
StandardRows ==
  << <<"r", "n", "b", "q", "k", "b", "n", "r">>,
     <<"p", "p", "p", "p", "p", "p", "p", "p">>,
     <<".", ".", ".", ".", ".", ".", ".", ".">>,
     <<".", ".", ".", ".", ".", ".", ".", ".">>,
     <<".", ".", ".", ".", ".", ".", ".", ".">>,
     <<".", ".", ".", ".", ".", ".", ".", ".">>,
     <<"P", "P", "P", "P", "P", "P", "P", "P">>,
     <<"R", "N", "B", "Q", "K", "B", "N", "R">> >>

upper_case(c) ==
  CASE c = "r" -> "R" [] c = "n" -> "N" [] c = "b" -> "B"
    [] c = "q" -> "Q" [] c = "k" -> "K" [] c = "p" -> "P" [] OTHER -> c

is_standard_position(b) ==
  \A x \in 0 .. 7, y \in 0 .. 7 :
    LET c == StandardRows[x + 1][y + 1]
    IN /\ b[x][y].piece = upper_case(c)
       /\ c # "." => (b[x][y].is_white <=> c \in Pieces)
       /\ ~b[x][y].double_move

\* Whether a text has a mainline half-move as the input format defines it:
\* a letter outside comments, strings, tag pairs and RAVs.
RECURSIVE has_half_move_from(_, _, _, _)
has_half_move_from(text, i, mode, depth) ==
  IF i > Len(text)
  THEN FALSE
  ELSE LET c == text[i]
       IN CASE mode = "brace" ->
                 has_half_move_from(text, i + 1, IF c = "}" THEN "text" ELSE "brace", depth)
            [] mode = "line" ->
                 has_half_move_from(text, i + 1, IF c = "\n" THEN "text" ELSE "line", depth)
            [] mode = "tag" ->
                 has_half_move_from(text, i + 1, IF c = "]" THEN "text" ELSE "tag", depth)
            [] OTHER ->
                 CASE c = "{" -> has_half_move_from(text, i + 1, "brace", depth)
                   [] c \in {";", "%"} -> has_half_move_from(text, i + 1, "line", depth)
                   [] c = "[" -> has_half_move_from(text, i + 1, "tag", depth)
                   [] c = "(" -> has_half_move_from(text, i + 1, "text", depth + 1)
                   [] c = ")" -> has_half_move_from(text, i + 1, "text", depth - 1)
                   [] OTHER -> (depth = 0 /\ c \in Alphas)
                                 \/ has_half_move_from(text, i + 1, "text", depth)

has_half_move(text) == has_half_move_from(text, 1, "text", 0)

\* C26: the board of a session is the standard starting position as long as
\* the input read so far has no mainline half-move: it is so after
\* construction, and headers, comments and RAVs leave it so.
C26_StartPosition ==
  ~has_half_move(taken) => is_standard_position(board_)

\* C26 witness: a replay ended after a tag pair, a comment and two nested
\* RAVs with the half-moves e4 and d4; the board is the standard starting
\* position.
C26_Witness ==
  /\ outcome = "finished"
  /\ scanner.eof
  /\ Len(taken) = 21 /\ SubSeq(taken, 13, 21) = <<"(", "e", "4", " ", "(", "d", "4", ")", ")">>
  /\ tok.type = "monostate"
  /\ parser.paranthesis_count_ = 0
  /\ ~has_half_move(taken)
  /\ is_standard_position(board_)

(***************************************************************************)
(* The move interpreter alone, as test_move_parser drives it:              *)
(* MoveFactory()(text, white_turn) for a text and a side to move.          *)
(***************************************************************************)
\* Half-move texts [Piece][src file][src rank][x|:]<dst file><dst rank>
\* [=|/ Promo][+|#] over a few pieces, files and ranks, and the texts
\* that stand for no half-move.
SanTexts ==
  LET optional(chars) == {<<>>} \cup { <<c>> : c \in chars }
  IN
  { piece \o src_file \o src_rank \o capture \o <<dst_file, dst_rank>> \o promotion \o suffix :
      piece \in optional({"N", "B"}), src_file \in optional({"b", "h"}),
      src_rank \in optional({"1", "8"}), capture \in optional({"x", ":"}),
      dst_file \in {"a", "e", "h"}, dst_rank \in {"1", "4", "8"},
      promotion \in {<<>>, <<"=", "Q">>, <<"/", "N">>}, suffix \in optional({"+", "#"}) }
    \cup { <<"e">>, <<"p">>, <<"O", "-", "O">>, <<"O", "-", "O", "-", "O">>,
           <<"1", "-", "0">>, <<"0", "-", "1">>, <<"1", "/", "2", "-", "1", "/", "2">> }

InitInterpreter ==
  /\ tok \in { Token("SymbolToken", text) : text \in SanTexts }
  /\ parser \in { [PGNParser EXCEPT !.white_turn = w] : w \in BOOLEAN }
  /\ emitted = NoMove
  /\ nmoves = 0
  /\ stray = FALSE
  /\ ref = [p |-> PGNParser, move |-> NoMove, outcome |-> "running"]
  /\ balanced = TRUE
  /\ board_ = ChessBoard
  /\ last = NoCall
  /\ IdleScanner
  /\ outcome = "running"
  /\ steps = 0

\* Moves m = MoveFactory()(text, white_turn)
Interpret ==
  /\ outcome = "running"
  /\ steps = 0
  /\ \E junk \in JunkChars :
       \E m \in {MoveFactory(tok.value_, parser.white_turn, junk)} :
         /\ emitted' = m
         /\ outcome' = session_outcome(m)
  /\ steps' = steps + 1
  /\ UNCHANGED <<boardVars, parser, tok, nmoves, stray, ref, balanced, scanVars>>

SpecInterpreter == InitInterpreter /\ [][Interpret]_vars

(***************************************************************************)
(* Claims about the move interpreter (SpecInterpreter)                     *)
(***************************************************************************)
\* Row and column of a rank digit and a file letter: '8' - rank, file - 'a'.
row_of(rank) == 8 - (CHOOSE n \in 1 .. 8 : <<"1", "2", "3", "4", "5", "6", "7", "8">>[n] = rank)
column_of(file) == (CHOOSE n \in 1 .. 8 : <<"a", "b", "c", "d", "e", "f", "g", "h">>[n] = file) - 1

\* The reading of a half-move text of the form above, taken apart from its
\* two ends: the suffix and the promotion from the right, the piece, the
\* source hint and the capture mark from the left, the destination between.
san_half_move(text, white_turn) ==
  LET n0 == Len(text)
      has_suffix == text[n0] \in {"+", "#"}
      n1 == IF has_suffix THEN n0 - 1 ELSE n0
      has_promotion == n1 >= 4 /\ text[n1 - 1] \in {"=", "/"}
      n2 == IF has_promotion THEN n1 - 2 ELSE n1
      n3 == n2 - 2
      has_piece == n3 >= 1 /\ text[1] \in {"P", "N", "B", "R", "Q", "K"}
      i1 == IF has_piece THEN 2 ELSE 1
      has_src_file == i1 <= n3 /\ text[i1] \in {"a", "b", "c", "d", "e", "f", "g", "h"}
      i2 == IF has_src_file THEN i1 + 1 ELSE i1
      has_src_rank == i2 <= n3 /\ text[i2] \in {"1", "2", "3", "4", "5", "6", "7", "8"}
      i3 == IF has_src_rank THEN i2 + 1 ELSE i2
      has_capture == i3 <= n3 /\ text[i3] \in {"x", ":"}
  IN [kind |-> "NextMove",
      piece |-> IF has_piece THEN text[1] ELSE "P",
      is_white_move |-> white_turn,
      capture |-> has_capture,
      check |-> (has_suffix /\ text[n0] = "+"),
      checkmate |-> (has_suffix /\ text[n0] = "#"),
      src |-> [x |-> IF has_src_rank THEN row_of(text[i2]) ELSE NoValue,
               y |-> IF has_src_file THEN column_of(text[i1]) ELSE NoValue],
      dst |-> [x |-> row_of(text[n2]), y |-> column_of(text[n2 - 1])],
      promote_piece |-> IF has_promotion THEN text[n1] ELSE NoPiece]

san_reading(text, white_turn) ==
  CASE text \in {<<"e">>, <<"p">>} -> [kind |-> "Ignore"]
    [] text = <<"O", "-", "O">> -> [kind |-> "KingCastling", is_white_move |-> white_turn]
    [] text = <<"O", "-", "O", "-", "O">> -> [kind |-> "QueenCastling", is_white_move |-> white_turn]
    [] text = <<"1", "-", "0">> -> [kind |-> "Finish", marker |-> "WHITE_WON"]
    [] text = <<"0", "-", "1">> -> [kind |-> "Finish", marker |-> "BLAKC_WON"]
    [] text = <<"1", "/", "2", "-", "1", "/", "2">> -> [kind |-> "Finish", marker |-> "EVEN"]
    [] OTHER -> san_half_move(text, white_turn)

\* C27: the interpreter returns the reference reading of the text: Ignore
\* for e and p, the castlings with the colour of the side to move, Finish
\* with the marker of the result, and for a half-move text the NextMove
\* with the leading piece letter (P without one), the source hint that is
\* given and no other, the destination of the file and rank, and capture,
\* check, checkmate and promote_piece set exactly when they are written.
C27_ReferenceReading ==
  steps = 1 => emitted = san_reading(tok.value_, parser.white_turn)

(***************************************************************************)
(* Claims about the automaton of the grammar driver (SpecParser)           *)
(***************************************************************************)
\* The transition table of the grammar driver for the atoms other than
\* STAR, as (state, atom, next state).  Init, HeaderOpen, HeaderName,
\* HeaderValue, HeaderClose, NumberIndication, Period and Move are the
\* driver's Init, ParsingLeftBracket, ParsingHeaderName, ParsingHeaderValue,
\* ParsingRightBracket, ParsingNumberIndication, ParsingPeriod, ParsingMove.
GrammarTable ==
  { <<"Init", "LeftBraceToken", "ParsingLeftBracket">>,
    <<"Init", "IntegerToken", "ParsingNumberIndication">>,
    <<"Init", "SymbolToken", "ParsingMove">>,
    <<"ParsingLeftBracket", "SymbolToken", "ParsingHeaderName">>,
    <<"ParsingHeaderName", "StringToken", "ParsingHeaderValue">>,
    <<"ParsingHeaderValue", "RightBraceToken", "ParsingRightBracket">>,
    <<"ParsingRightBracket", "LeftBraceToken", "ParsingLeftBracket">>,
    <<"ParsingRightBracket", "IntegerToken", "ParsingNumberIndication">>,
    <<"ParsingRightBracket", "SymbolToken", "ParsingMove">>,
    <<"ParsingNumberIndication", "PeriodToken", "ParsingPeriod">>,
    <<"ParsingNumberIndication", "SymbolToken", "ParsingMove">>,
    <<"ParsingPeriod", "PeriodToken", "ParsingPeriod">>,
    <<"ParsingPeriod", "SymbolToken", "ParsingMove">>,
    <<"ParsingMove", "SymbolToken", "ParsingMove">>,
    <<"ParsingMove", "IntegerToken", "ParsingNumberIndication">> }

GrammarStates == { row[1] : row \in GrammarTable }
TableAtoms ==
  {"LeftBraceToken", "RightBraceToken", "StringToken", "PeriodToken",
   "SymbolToken", "IntegerToken"}

\* C28: for an atom other than STAR that reaches the automaton in one of
\* its eight states (the depth is not negative), a pair of the table moves
\* the driver to the state the table lists; a PERIOD in Move changes nothing and emits nothing; every
\* other pair is a grammar error: the state stays and no descriptor is
\* emitted.
C28_TransitionTable ==
  [][(Consuming /\ tok'.type \in TableAtoms /\ parser.state_ \in GrammarStates
        /\ parser.paranthesis_count_ >= 0) =>
       LET rows == { row \in GrammarTable : row[1] = parser.state_ /\ row[2] = tok'.type }
       IN /\ rows # {} => /\ \A row \in rows : parser'.state_ = row[3]
                          /\ emitted'.kind # "Abort"
                          /\ parser'.state_ # "ParsingMove" => emitted' = NoMove
          /\ (rows = {} /\ parser.state_ = "ParsingMove" /\ tok'.type = "PeriodToken")
               => (parser' = parser /\ emitted' = NoMove /\ outcome' = "running")
          /\ (rows = {} /\ ~(parser.state_ = "ParsingMove" /\ tok'.type = "PeriodToken"))
               => (emitted' = Throw /\ parser' = parser /\ outcome' = "error")]_vars

\* C28 witness: a PERIOD arrived in Move after a half-move was emitted and
\* was tolerated: the driver is in Move and has emitted nothing for it.
C28_Witness ==
  /\ tok.type = "PeriodToken"
  /\ parser.state_ = "ParsingMove"
  /\ emitted = NoMove
  /\ nmoves = 1
  /\ outcome = "running"

\* C29: a STAR moves the driver to Finished from each of its eight states
\* and is never a grammar error; at depth 0 the descriptor Finish{manual}
\* is emitted, inside a RAV nothing is.
C29_StarFinishesFromEveryState ==
  [][(Consuming /\ tok'.type = "AsterkixToken" /\ parser.state_ \in GrammarStates
        /\ parser.paranthesis_count_ >= 0) =>
       /\ parser'.state_ = "Finished"
       /\ emitted' # Throw
       /\ parser.paranthesis_count_ = 0
            => (emitted' = Finish("MANUAL") /\ outcome' = "finished")
       /\ parser.paranthesis_count_ > 0 => emitted' = NoMove]_vars

(***************************************************************************)
(* The motion predicates alone, as test_rook_move and test_bishop_move     *)
(* drive them: a board, then b.can_move_<piece>(src, dst, capture, colour).*)
(***************************************************************************)
InitMotion ==
  /\ board_ \in {ChessBoard, EnPassantBoard, LockedBoard}
  /\ last = NoCall
  /\ IdleParser
  /\ IdleScanner
  /\ outcome = "running"
  /\ steps = 0

\* One call of a predicate, through the switch of apply over the piece;
\* the record keeps the arguments, the board before and the value returned.
Probe ==
  /\ outcome = "running"
  /\ steps = 0
  /\ \E piece \in {"R", "B", "Q", "N", "K"}, src \in Cells, dst \in Cells,
        capture \in BOOLEAN, is_white_move \in BOOLEAN :
       \E v \in {can_move(board_, piece, src, dst, capture, is_white_move)} :
         /\ board_' = v.b
         /\ last' = [move |-> [NextMove(is_white_move) EXCEPT !.piece = piece,
                                                               !.capture = capture],
                     ok |-> v.result, matches |-> 0, src |-> src, dst |-> dst,
                     before |-> board_, turn |-> "none", well_formed |-> TRUE]
         /\ outcome' = IF v.failed THEN "aborted" ELSE "running"
  /\ steps' = steps + 1
  /\ UNCHANGED <<parserVars, scanVars>>

SpecMotion == InitMotion /\ [][Probe]_vars

(***************************************************************************)
(* Claims about the motion predicates (SpecMotion)                         *)
(***************************************************************************)
sign(n) == IF n > 0 THEN 1 ELSE IF n < 0 THEN -1 ELSE 0
largest(a, b) == IF a >= b THEN a ELSE b

\* The cells strictly between two cells of one rank, file or diagonal.
strictly_between(src, dst) ==
  LET n == largest(abs(dst.x - src.x), abs(dst.y - src.y))
  IN { Coordinates(src.x + k * sign(dst.x - src.x), src.y + k * sign(dst.y - src.y)) :
         k \in 1 .. (n - 1) }

clear_way(b, src, dst) == \A c \in strictly_between(src, dst) : b[c.x][c.y].piece = "."

rook_geometry(b, src, dst) ==
  src # dst /\ (src.x = dst.x \/ src.y = dst.y) /\ clear_way(b, src, dst)

bishop_geometry(b, src, dst) ==
  /\ abs(dst.x - src.x) = abs(dst.y - src.y) /\ abs(dst.x - src.x) >= 1
  /\ clear_way(b, src, dst)

geometry(b, piece, src, dst) ==
  CASE piece = "R" -> rook_geometry(b, src, dst)
    [] piece = "B" -> bishop_geometry(b, src, dst)
    [] piece = "Q" -> rook_geometry(b, src, dst) \/ bishop_geometry(b, src, dst)
    [] piece = "N" -> <<abs(dst.x - src.x), abs(dst.y - src.y)>> \in {<<1, 2>>, <<2, 1>>}
    [] piece = "K" -> largest(abs(dst.x - src.x), abs(dst.y - src.y)) = 1

pawn_push(b, src, dst, is_white_move) ==
  LET fwd == IF is_white_move THEN -1 ELSE 1
      start == IF is_white_move THEN 6 ELSE 1
  IN IF dst.y # src.y THEN 0
     ELSE IF dst.x = src.x + fwd /\ b[dst.x][dst.y].piece = "." THEN 1
     ELSE IF /\ dst.x = src.x + 2 * fwd /\ src.x = start
             /\ b[src.x + fwd][src.y].piece = "." /\ b[dst.x][dst.y].piece = "."
          THEN 2
          ELSE 0

pawns_of(b, is_white_move) == cells_of(b, "P", is_white_move, Idx, Idx)

AppliedPush == AppliedNextMove /\ last.move.piece = "P" /\ ~last.move.capture

\* C31: a pawn move without capture is accepted iff it stays on its file
\* and goes forward one square onto an empty cell, or two squares from the
\* starting rank through an empty cell onto an empty cell; after an applied
\* push of two squares the pawn on the destination has double_move = true,
\* after an applied push of one square it has double_move = false.
C31_PawnPush ==
  /\ \A w \in BOOLEAN : \A src \in pawns_of(board_, w) : \A dst \in Cells :
       can_move_pawn(board_, src, dst, FALSE, w).result
         <=> pawn_push(board_, src, dst, w) # 0
  /\ AppliedPush =>
       LET n == pawn_push(last.before, last.src, last.dst, last.move.is_white_move)
       IN /\ n \in {1, 2}
          /\ board_[last.dst.x][last.dst.y].piece =
               (IF last.move.promote_piece # NoPiece
                THEN last.move.promote_piece ELSE "P")
          /\ board_[last.dst.x][last.dst.y].is_white = last.move.is_white_move
          /\ board_[last.dst.x][last.dst.y].double_move = (n = 2)

\* C31 witness: after a push of two squares (flag set) a push of one square
\* was applied (flag not set), while a pawn on its starting rank has a
\* piece on the cell in front of it.
C31_Witness ==
  /\ AppliedPush
  /\ pawn_push(last.before, last.src, last.dst, last.move.is_white_move) = 1
  /\ flagged(last.before) # {}
  /\ ~board_[last.dst.x][last.dst.y].double_move
  /\ \E src \in pawns_of(board_, TRUE) :
       src.x = 6 /\ board_[5][src.y].piece # "." /\ board_[4][src.y].piece = "."

(***************************************************************************)
(* Claims about the source hints (SpecBoard)                               *)
(***************************************************************************)
\* The half-move val without its source hint.
without_hint(val) == [val EXCEPT !.src = Coordinates(NoValue, NoValue)]

\* The pieces of the moving type and colour that pass the legality test for
\* the destination of val, the hint left aside.
legal_sources(b, val) ==
  { c \in src_candidates(b, without_hint(val)) :
      \E dst \in dst_candidates(b, val) : passes_legality(b, val, c, dst) }

matches_hint(val, c) ==
  /\ val.src.x # NoValue => c.x = val.src.x
  /\ val.src.y # NoValue => c.y = val.src.y

\* C32: when several pieces of the moving type and colour could legally
\* reach the destination, an applied half-move carried a source hint, the
\* piece moved is one the hint names (its file, its rank, or its square),
\* and every other piece of that type and colour is where it was.
C32_HintSelectsSource ==
  (AppliedNextMove /\ Cardinality(legal_sources(last.before, last.move)) >= 2) =>
    /\ last.move.src # Coordinates(NoValue, NoValue)
    /\ matches_hint(last.move, last.src)
    /\ last.src \in legal_sources(last.before, last.move)
    /\ \A c \in src_candidates(last.before, without_hint(last.move)) \ {last.src} :
         /\ same_piece_and_colour(last.before, board_, c)
         /\ board_[c.x][c.y].piece = last.move.piece

\* C32 witness: two knights on one file reach b6 and the rank given alone
\* chose the one that was moved.
C32_Witness ==
  /\ AppliedNextMove
  /\ Cardinality(legal_sources(last.before, last.move)) = 2
  /\ last.move.src.x # NoValue /\ last.move.src.y = NoValue
  /\ last.src.x = last.move.src.x
  /\ \E c \in legal_sources(last.before, last.move) : c.y = last.src.y /\ c.x # last.src.x

(***************************************************************************)
(* Claims about numbers and symbols (SpecReplay)                           *)
(***************************************************************************)
\* The symbol characters a text begins with.
symbol_run(text) ==
  LET stops == { i \in 1 .. Len(text) : ~is_symbol_char(text[i]) }
  IN IF stops = {} THEN text
     ELSE SubSeq(text, 1, (CHOOSE i \in stops : \A j \in stops : i <= j) - 1)

all_digits(text) == \A i \in 1 .. Len(text) : text[i] \in Digits

\* What the rule gives for a run of symbol characters.
symbol_or_integer(run) ==
  Token(IF all_digits(run) THEN "IntegerToken" ELSE "SymbolToken", run)

\* C33: a run of symbol characters that begins with a digit or a letter and
\* is followed by another character is emitted with its own text, as
\* INTEGER iff each of its characters is a digit and as SYMBOL otherwise;
\* no INTEGER or SYMBOL is emitted in another way; and a half-move or a
\* result marker that reached the move interpreter came as SYMBOL.
C33_IntegerIffAllDigits ==
  [][Consuming =>
       LET run == symbol_run(to_scan)
           begins == to_scan # <<>> /\ (isdigit(to_scan[1]) \/ isalpha(to_scan[1]))
       IN /\ (begins /\ Len(run) < Len(to_scan)) => tok' = symbol_or_integer(run)
          /\ tok'.type \in {"IntegerToken", "SymbolToken"}
               => (begins /\ tok' = symbol_or_integer(run))
          /\ emitted'.kind \in {"NextMove", "KingCastling", "QueenCastling", "Finish"}
               => tok'.type \in {"SymbolToken", "AsterkixToken"}]_vars

\* C33 witness: the number 12 came to the driver as INTEGER and 4e, which
\* begins with a digit, as SYMBOL.
C33_Witness ==
  /\ tok = Token("SymbolToken", <<"4", "e">>)
  /\ taken = <<"1", "2", ".", " ", "4", "e", " ">>
  /\ parser.state_ = "ParsingMove"

(***************************************************************************)
(* Claims about annotations between the half-moves (SpecReplay)            *)
(***************************************************************************)
ends_with(text, tail) ==
  Len(text) >= Len(tail) /\ SubSeq(text, Len(text) - Len(tail) + 1, Len(text)) = tail

\* The en passant annotation, an atom of its own, is the last thing scanned.
annotation_read(text) == ends_with(text, <<" ", "e", ".", "p", ".">>)

\* C34: an e.p. annotation after a half-move is neutral.  Each of its four
\* atoms e . p . is consumed in the Move state without an error, the two
\* symbols yield Ignore and the two periods nothing, and none of them
\* changes the board; once the annotation is read the white-turn flag is
\* that of the side that moved last, so the half-move that follows gets
\* the colour it would get without the annotation.
C34_EnPassantAnnotationNeutral ==
  [][(Consuming /\ parser.state_ = "ParsingMove" /\ parser.paranthesis_count_ = 0) =>
       /\ tok' \in {Token("SymbolToken", <<"e">>), Token("SymbolToken", <<"p">>)}
            => /\ emitted' = Ignore
               /\ outcome' = "running"
               /\ parser'.state_ = "ParsingMove"
               /\ board_' = board_
       /\ tok'.type = "PeriodToken"
            => /\ emitted' = NoMove
               /\ outcome' = "running"
               /\ parser' = parser
               /\ board_' = board_
       /\ annotation_read(scanned_text')
            => /\ tok'.type = "PeriodToken"
               /\ last'.turn \in {"white", "black"}
               /\ parser'.white_turn <=> last'.turn = "white"]_vars

\* C34 witness: after 3. exf6 e.p. the knight went to c6 as a black piece.
C34_Witness ==
  /\ outcome = "finished"
  /\ \E i \in 1 .. Len(taken) : annotation_read(SubSeq(taken, 1, i))
  /\ board_[r("6")][f("c")] = Cell(FALSE, "N")
  /\ board_[r("8")][f("b")].piece = "."
  /\ board_[r("6")][f("f")].piece = "P" /\ board_[r("6")][f("f")].is_white
  /\ board_[r("5")][f("f")].piece = "."

\* Whether the text holds the atom e or the atom p: the letter with no
\* symbol character next to it.
has_annotation_atom(text) ==
  \E i \in 1 .. Len(text) :
    /\ text[i] \in {"e", "p"}
    /\ i > 1 => ~is_symbol_char(text[i - 1])
    /\ i < Len(text) => ~is_symbol_char(text[i + 1])

\* C35: what is read at parenthesis depth > 0 does not change the
\* white-turn flag, so a RAV, whatever half-moves it holds, does not shift
\* the colours of the mainline: in a text without the atoms e and p every
\* half-move emitted is for the side that did not make the last half-move
\* applied, and the first one is for white.
C35_RavKeepsTheTurn ==
  [][Consuming =>
       /\ parser.paranthesis_count_ > 0 => ~Toggled
       /\ (emitted'.kind \in HalfMoveKinds /\ ~has_annotation_atom(taken'))
            => (emitted'.is_white_move <=> last.turn # "white")]_vars

\* C35 witness: 1. e4 (1. d4 d5 2. c4) e5: the three half-moves of the RAV
\* moved nothing and e5 was played by black.
C35_Witness ==
  /\ outcome = "finished"
  /\ ends_with(taken, <<"2", ".", " ", "c", "4", ")", " ", "e", "5", " ">>)
  /\ board_[r("5")][f("e")].piece = "P" /\ ~board_[r("5")][f("e")].is_white
  /\ board_[r("4")][f("e")].piece = "P" /\ board_[r("4")][f("e")].is_white
  /\ board_[r("2")][f("d")].piece = "P" /\ board_[r("7")][f("d")].piece = "P"
  /\ board_[r("2")][f("c")].piece = "P"

\* The games in which a RAV ends on a termination marker.
marker_in_rav(text) ==
  /\ text \in AnnotatedGames
  /\ \E i \in 1 .. (Len(text) - 1) :
       text[i + 1] = ")" /\ (text[i] = "*" \/ (i > 2 /\ SubSeq(text, i - 2, i) = <<"1", "-", "0">>))

\* C36: a termination marker inside a RAV neither ends nor breaks the
\* replay: no Finish is emitted for an atom read at depth > 0, and a game
\* 1. e4 (1. d4 <marker>) e5 is read to its end, with e5 applied for black.
C36_MarkerInsideRav ==
  [][Consuming =>
       /\ parser.paranthesis_count_ > 0 => emitted'.kind # "Finish"
       /\ (outcome' # "running" /\ marker_in_rav(taken' \o file_'))
            => /\ outcome' = "finished"
               /\ file_' = <<>>
               /\ board_'[r("5")][f("e")].piece = "P"
               /\ ~board_'[r("5")][f("e")].is_white]_vars

(***************************************************************************)
(* Claims about the parenthesis depth (SpecParser)                         *)
(***************************************************************************)
\* C37: the parenthesis depth is never negative: a closing parenthesis that
\* arrives at depth 0 is rejected when it arrives, so that the session ends
\* there, and no descriptor is emitted once a closing parenthesis has
\* arrived at depth 0.
C37_DepthNeverNegative ==
  [][Consuming =>
       /\ parser'.paranthesis_count_ >= 0
       /\ (tok'.type = "RightParenthesisToken" /\ parser.paranthesis_count_ = 0)
            => outcome' \in {"error", "aborted"}
       /\ ~balanced' => emitted'.kind \notin DescriptorKinds]_vars

(***************************************************************************)
(* Claims about the source square (SpecBoard)                              *)
(***************************************************************************)
held_the_piece(b, val, src) ==
  b[src.x][src.y].piece = val.piece /\ b[src.x][src.y].is_white = val.is_white_move

\* C38: the source square of every applied NextMove held, before the move,
\* a piece of the descriptor's type and of the mover's colour, whatever the
\* source hint; a half-move whose source is given in full and names a cell
\* that is empty or holds another piece or colour is not applied.
C38_SourceHeldThePiece ==
  /\ AppliedNextMove => held_the_piece(last.before, last.move, last.src)
  /\ ( /\ last.move.kind = "NextMove"
       /\ last.move.src.x # NoValue /\ last.move.src.y # NoValue
       /\ ~held_the_piece(last.before, last.move, last.move.src) )
       => (~last.ok /\ board_ = last.before)

(***************************************************************************)
(* Claims about the test of the candidates (SpecBoard)                     *)
(***************************************************************************)
\* C39: the test of a candidate pair does not modify the board.  On every
\* board a call of the pawn's predicate, for any pawn, destination and
\* capture mark, leaves every cell as it was (the other predicates and
\* is_locked only read); and after a call of apply that did not return,
\* because no pair or more than one pair was legal, every cell is as it
\* was before the call.
C39_TestingLeavesTheBoard ==
  /\ (last.move.kind = "NextMove" /\ ~last.ok) => board_ = last.before
  /\ \A w \in BOOLEAN : \A src \in pawns_of(board_, w) :
       \A dst \in Cells : \A capture \in BOOLEAN :
         can_move_pawn(board_, src, dst, capture, w).b = board_

(***************************************************************************)
(* Claims about the termination of the scanner (SpecReplay)                *)
(***************************************************************************)
\* The atoms scan_token has emitted so far: one for each call but the one
\* that found the end of the input or raised an error.
atoms_emitted == IF steps > 0 /\ tok.type = "monostate" THEN steps - 1 ELSE steps

\* C40 as claimed: every call of scan_token reads at least one new character
\* from the stream, or reaches the end of the input, or raises an error.
C40_EveryCallReadsNewCharacter ==
  [][Consuming => (Len(taken') > Len(taken) \/ tok'.type = "monostate")]_vars

\* C40 as amended: every call of scan_token that emits an atom deals with at
\* least one character no call before has dealt with: it reads a new
\* character or takes the one kept for it as the whole or the beginning of
\* its atom; a call that emits none found the end of the input or raised an
\* error; a character kept for the next call is never kept again by that
\* call; the atoms emitted are never more than the characters dealt with,
\* so that the calls made are at most one more than the characters of the
\* input; and the session goes on only while no call has found the end of
\* the input or raised an error.
C40_ScannerProgress ==
  [][Consuming =>
       /\ tok'.type # "monostate" => Len(scanned_text') > Len(scanned_text)
       /\ tok'.type = "monostate" => outcome' \in {"finished", "error"}
       /\ (scanner.repeat_ /\ scanner'.repeat_) => Len(taken') > Len(taken)
       /\ atoms_emitted' <= Len(scanned_text')
       /\ steps' <= Len(taken') + Len(file_') + 1]_vars

\* C40 witness: the period that ended the number 1 was emitted as an atom
\* by the next call, which read no character, and the input goes on.
C40_Witness ==
  /\ steps = 2
  /\ tok.type = "PeriodToken"
  /\ taken = <<"1", ".">>
  /\ ~scanner.repeat_
  /\ file_ # <<>>
  /\ atoms_emitted = Len(scanned_text)

====
